---------------------------- MODULE Spec2Model ----------------------------
(***************************************************************************)
(* A model of the analysis core of the glucose monitor: the rule modules   *)
(* of src/analysis/recommendations.py and the on-board calculator of       *)
(* src/analysis/iob_calculator.py.                                         *)
(*                                                                         *)
(* Numbers are fixed point.  Glucose values are whole mg/dL.  The units    *)
(* of every other quantity are written next to the definition that        *)
(* introduces it:                                                          *)
(*   rate of change     1/1000 mg/dL/min before rounding, 1/100 after      *)
(*   predicted value    1/10 mg/dL    (the predictor rounds to 1 decimal)  *)
(*   total_iob          1/100 unit    (calculate_iob rounds to 2 decimals) *)
(*   insulin dose       1/10000 unit before rounding, 1/10 after           *)
(*   carbohydrate dose  1/100 g before rounding, whole g after             *)
(*   entry amounts      1/1000 unit or gram                                *)
(*   fractions          1/10000                                            *)
(* None (Python's None) is the empty sequence, a present value v is <<v>>. *)
(***************************************************************************)
EXTENDS Integers, Sequences, FiniteSets

VARIABLES
    settings,          \* the Settings object every component is built with
    readings,          \* the window: the readings' values, in list order
    timestamps,        \* the readings' timestamps, in minutes, in list order
    trend_analysis,    \* the dict analyze_trend returns
    prediction,        \* the dict predict_future_value returns
    iob_cob_data,      \* None, or the dict get_iob_cob_summary returns
    recommendation,    \* what the rule module under analysis returned
    insulin_entries,   \* the InsulinEntry list handed to calculate_iob
    carb_entries,      \* the CarbEntry list handed to calculate_cob
    iob_override,      \* the iob_override argument of calculate_iob
    iob_overrides,     \* the rows of the table iob_overrides
    current_time,      \* the current_time argument, in minutes
    iob_data,          \* what calculate_iob returned
    cob_data,          \* what calculate_cob returned
    wall_clock,        \* datetime.now(), in minutes since midnight
    recommenders,      \* RecommendationEngine.recommenders, in list order
    raising,           \* the recommenders whose analyze raises
    recommendations,   \* what get_recommendations returned
    calls,             \* the calls of get_recommendations made so far
    critical_recommendations,  \* what get_critical_recommendations returned
    pc                 \* "input" before the call, "done" after it

vars == <<settings, readings, timestamps, trend_analysis, prediction,
          iob_cob_data, recommendation, insulin_entries, carb_entries,
          iob_override, iob_overrides, current_time, iob_data, cob_data,
          wall_clock,
          recommenders, raising, recommendations, calls,
          critical_recommendations, pc>>

None == << >>

Some(v) == <<v>>

\* Python's truth test of an Optional number: None and 0 are both false.
Truthy(opt) == opt # None /\ opt[1] # 0

Min(a, b) == IF a <= b THEN a ELSE b

Max(a, b) == IF a >= b THEN a ELSE b

Abs(a) == IF a >= 0 THEN a ELSE -a

\* Python's round(): x counted in 1/d of the target unit, to the nearest
\* whole target unit, a tie going to the even neighbour.
Round(x, d) ==
    LET q == x \div d
        r == x % d
    IN  IF 2 * r < d THEN q
        ELSE IF 2 * r > d THEN q + 1
        ELSE IF q % 2 = 0 THEN q ELSE q + 1

-----------------------------------------------------------------------------
(* Settings: the defaults of src/config/settings.py and two other          *)
(* configurations an environment file can give.                            *)

DefaultSettings ==
    [ low_glucose_threshold          |-> 70,
      high_glucose_threshold         |-> 180,
      critical_low_threshold         |-> 55,
      target_glucose                 |-> 120,
      insulin_effectiveness          |-> 40,
      insulin_unit_ratio             |-> 200,     \* 0.2, in 1/1000
      carb_effectiveness             |-> 15,
      iob_threshold_high             |-> 200,     \* 2.0 units, in 1/100
      trend_down_threshold           |-> 500,     \* 0.5, in 1/1000
      trend_fast_down_threshold      |-> 2000,
      trend_very_fast_down_threshold |-> 4000,
      trend_up_threshold             |-> 500,
      trend_fast_up_threshold        |-> 2000,
      trend_very_fast_up_threshold   |-> 4000,
      trend_calculation_points       |-> 3,
      stable_variance_threshold      |-> 10,
      prediction_minutes_ahead       |-> 15,
      enable_insulin_recommendations |-> TRUE,
      enable_carb_recommendations    |-> TRUE ]

\* Another environment: stronger unit ratio, weaker carbohydrate effect,
\* a lower high-IOB threshold and a wider no_change band.
TunedSettings ==
    [ DefaultSettings EXCEPT
        !.target_glucose        = 100,
        !.insulin_effectiveness = 20,
        !.insulin_unit_ratio    = 1000,
        !.carb_effectiveness    = 10,
        !.iob_threshold_high    = 100,
        !.trend_down_threshold  = 1000,
        !.trend_up_threshold    = 1000 ]

\* ENABLE_INSULIN_RECOMMENDATIONS=false, ENABLE_CARB_RECOMMENDATIONS=false
DisabledSettings ==
    [ DefaultSettings EXCEPT
        !.enable_insulin_recommendations = FALSE,
        !.enable_carb_recommendations    = FALSE ]

SettingsSet == { DefaultSettings, TunedSettings, DisabledSettings }

-----------------------------------------------------------------------------
(* TrendAnalyzer: the part of the trend result the rule modules read.      *)

\* The classification with open lower bounds.
classify_trend_Open(rate, s) ==
    LET abs_rate == Abs(rate)
    IN  IF rate > 0
        THEN IF abs_rate > s.trend_very_fast_up_threshold THEN "very_fast_up"
             ELSE IF abs_rate > s.trend_fast_up_threshold THEN "fast_up"
             ELSE IF abs_rate > s.trend_up_threshold THEN "up"
             ELSE "no_change"
        ELSE IF rate < 0
        THEN IF abs_rate > s.trend_very_fast_down_threshold THEN "very_fast_down"
             ELSE IF abs_rate > s.trend_fast_down_threshold THEN "fast_down"
             ELSE IF abs_rate > s.trend_down_threshold THEN "down"
             ELSE "no_change"
        ELSE "no_change"

\* rate in 1/1000 mg/dL/min
classify_trend(rate, s) ==
    LET abs_rate == Abs(rate)
    IN  IF rate > 0
        THEN IF abs_rate >= s.trend_very_fast_up_threshold THEN "very_fast_up"
             ELSE IF abs_rate >= s.trend_fast_up_threshold THEN "fast_up"
             ELSE IF abs_rate >= s.trend_up_threshold THEN "up"
             ELSE "no_change"
        ELSE IF rate < 0
        THEN IF abs_rate >= s.trend_very_fast_down_threshold THEN "very_fast_down"
             ELSE IF abs_rate >= s.trend_fast_down_threshold THEN "fast_down"
             ELSE IF abs_rate >= s.trend_down_threshold THEN "down"
             ELSE "no_change"
        ELSE "no_change"

\* The direction with the bounds included.
get_direction_Inclusive(rate) ==
    IF rate >= 1000 THEN "rising"
    ELSE IF rate <= -1000 THEN "falling"
    ELSE "stable"

\* rate in 1/1000 mg/dL/min
get_direction(rate) ==
    IF rate > 1000 THEN "rising"
    ELSE IF rate < -1000 THEN "falling"
    ELSE "stable"

\* The dict analyze_trend builds from the regression slope: the tag and the
\* direction come from the unrounded slope, the rate is stored rounded to
\* 1/100.
analyze_trend_result(rate, s) ==
    [ trend          |-> classify_trend(rate, s),
      rate_of_change |-> Round(rate, 10),
      direction      |-> get_direction(rate) ]

RECURSIVE SeqSum(_)
SeqSum(sq) == IF sq = << >> THEN 0 ELSE Head(sq) + SeqSum(Tail(sq))

\* sorted(readings, key=lambda r: r.timestamp, reverse=True): the positions
\* of the list, the one of the latest timestamp first (timestamps differ).
NewestFirstOrder(ts) ==
    [ k \in 1..Len(ts) |->
        CHOOSE i \in 1..Len(ts) :
            Cardinality({ j \in 1..Len(ts) : ts[j] > ts[i] }) = k - 1 ]

\* The slope of the least-squares line through the points, in 1/1000
\* mg/dL/min; values and ts are parallel lists.  The quotient is exact for
\* whole values one reading interval apart.
calculate_rate_of_change(values, ts) ==
    IF Len(values) < 2 THEN 0
    ELSE LET n        == Len(values)
             earliest == CHOOSE m \in { ts[i] : i \in 1..n } :
                            \A i \in 1..n : m <= ts[i]
             t        == [ i \in 1..n |-> ts[i] - earliest ]
             sum_t    == SeqSum(t)
             sum_y    == SeqSum(values)
             sum_ty   == SeqSum([ i \in 1..n |-> t[i] * values[i] ])
             sum_tt   == SeqSum([ i \in 1..n |-> t[i] * t[i] ])
             den      == n * sum_tt - sum_t * sum_t
         IN  IF \A i \in 1..n : t[i] = t[1] THEN 0
             ELSE (1000 * (n * sum_ty - sum_t * sum_y)) \div den

\* np.var(values) < stable_variance_threshold, the variance being
\* sum_yy / n - (sum_y / n) ** 2
is_stable(values, s) ==
    LET n      == Len(values)
        sum_y  == SeqSum(values)
        sum_yy == SeqSum([ i \in 1..n |-> values[i] * values[i] ])
    IN  n * sum_yy - sum_y * sum_y < s.stable_variance_threshold * n * n

\* analyze_trend: the latest trend_calculation_points readings by
\* timestamp, their slope, and the dict built from it.
analyze_trend(rs, ts, s) ==
    IF Len(rs) < 2
    THEN [ trend |-> "no_change", rate_of_change |-> 0, direction |-> "stable",
           is_stable |-> TRUE ]
    ELSE LET order          == NewestFirstOrder(ts)
             analysis_count == IF Len(rs) <= s.trend_calculation_points
                               THEN Len(rs) ELSE s.trend_calculation_points
             values         == [ k \in 1..analysis_count |-> rs[order[k]] ]
             times          == [ k \in 1..analysis_count |-> ts[order[k]] ]
             result         == analyze_trend_result(calculate_rate_of_change(values, times), s)
         IN  [ trend          |-> result.trend,
               rate_of_change |-> result.rate_of_change,
               direction      |-> result.direction,
               is_stable      |-> is_stable(values, s) ]

-----------------------------------------------------------------------------
(* GlucosePredictor (src/analysis/predictor.py).  The readings are whole   *)
(* values one reading interval apart, so every statistic below is an       *)
(* exact ratio of integers; an r_squared or a squared standard error is    *)
(* passed as numerator and denominator.  predicted_value is in 1/10 mg/dL. *)

\* Minutes between consecutive readings: POLL_INTERVAL_MINUTES.
ReadingInterval == 5

RECURSIVE Pow10(_)
Pow10(k) == IF k = 0 THEN 1 ELSE 10 * Pow10(k - 1)

\* _calculate_confidence(r_squared, std_err, sample_size), with
\* r_squared = r2_num / r2_den and std_err ** 2 = se2_num / se2_den.
calculate_confidence(r2_num, r2_den, se2_num, se2_den, sample_size) ==
    LET r_squared_score == IF 5 * r2_num >= 4 * r2_den THEN 3
                           ELSE IF 5 * r2_num >= 3 * r2_den THEN 2
                           ELSE IF 5 * r2_num >= 2 * r2_den THEN 1
                           ELSE 0
        error_score     == IF se2_num < 25 * se2_den THEN 3
                           ELSE IF se2_num < 100 * se2_den THEN 2
                           ELSE IF se2_num < 400 * se2_den THEN 1
                           ELSE 0
        size_score      == IF sample_size >= 10 THEN 2
                           ELSE IF sample_size >= 5 THEN 1
                           ELSE 0
        total_score     == r_squared_score + error_score + size_score
    IN  IF total_score >= 7 THEN "high"
        ELSE IF total_score >= 4 THEN "medium"
        ELSE "low"

\* _linear_extrapolation: the regression line through the readings (values
\* oldest first, times in minutes from the most recent), read ahead.
linear_extrapolation(values, s) ==
    LET n      == Len(values)
        t      == [ i \in 1..n |-> -ReadingInterval * (n - i) ]
        sum_t  == SeqSum(t)
        sum_y  == SeqSum(values)
        sum_tt == SeqSum([ i \in 1..n |-> t[i] * t[i] ])
        sum_ty == SeqSum([ i \in 1..n |-> t[i] * values[i] ])
        sum_yy == SeqSum([ i \in 1..n |-> values[i] * values[i] ])
        ssx    == n * sum_tt - sum_t * sum_t
        ssy    == n * sum_yy - sum_y * sum_y
        sxy    == n * sum_ty - sum_t * sum_y
        \* slope = sxy / ssx, intercept = (sum_y - slope * sum_t) / n
        ahead  == s.prediction_minutes_ahead
        value  == Round(10 * (sxy * ahead * n + sum_y * ssx - sxy * sum_t), n * ssx)
        \* r = 0 when the values are all equal
        r2_num == IF ssy = 0 THEN 0 ELSE sxy * sxy
        r2_den == IF ssy = 0 THEN 1 ELSE ssx * ssy
    IN  [ predicted_value |-> Some(value),
          confidence      |-> calculate_confidence(r2_num, r2_den,
                                  ssx * ssy - sxy * sxy, ssx * ssx * (n - 2), n),
          method          |-> "linear_extrapolation" ]

\* _polynomial_prediction on five readings: the least-squares parabola in
\* the basis 1, u, u*u - 2 (orthogonal on u = -2..2), read at u = 2 + the
\* steps ahead.  res70 and tot70 are 70 times ss_res and ss_tot.
polynomial_prediction(values, s) ==
    LET u     == [ i \in 1..5 |-> i - 3 ]
        s0    == SeqSum(values)
        s1    == SeqSum([ i \in 1..5 |-> u[i] * values[i] ])
        s2    == SeqSum([ i \in 1..5 |-> (u[i] * u[i] - 2) * values[i] ])
        sq    == SeqSum([ i \in 1..5 |-> values[i] * values[i] ])
        \* u of the future time, times the reading interval
        fu    == 2 * ReadingInterval + s.prediction_minutes_ahead
        h     == ReadingInterval
        \* value = s0/5 + (fu/h) * s1/10 + ((fu/h)^2 - 2) * s2/14
        value == Round(10 * (14 * h * h * s0 + 7 * fu * h * s1
                             + 5 * (fu * fu - 2 * h * h) * s2), 70 * h * h)
        tot70 == 70 * sq - 14 * s0 * s0
        res70 == tot70 - 7 * s1 * s1 - 5 * s2 * s2
        r2_num == IF tot70 = 0 THEN 0 ELSE tot70 - res70
        r2_den == IF tot70 = 0 THEN 1 ELSE tot70
    IN  [ predicted_value |-> Some(value),
          \* std_err ** 2 = ss_res / (5 - 3)
          confidence      |-> calculate_confidence(r2_num, r2_den, res70, 140, 5),
          method          |-> "polynomial_fit" ]

\* The smoothed values, alpha = 0.3, in 1/scale mg/dL.
RECURSIVE Smoothed(_, _, _)
Smoothed(values, i, scale) ==
    IF i = 1 THEN values[1] * scale
    ELSE (3 * values[i] * scale + 7 * Smoothed(values, i - 1, scale)) \div 10

\* _exponential_smoothing_prediction: the last smoothed value plus its last
\* step times prediction_minutes_ahead / 5.
exponential_smoothing_prediction(values, s) ==
    LET n         == Len(values)
        scale     == Pow10(n - 1)
        smoothed  == [ i \in 1..n |-> Smoothed(values, i, scale) ]
        trend     == smoothed[n] - smoothed[n - 1]
        value     == Round(10 * (5 * smoothed[n] + trend * s.prediction_minutes_ahead),
                           5 * scale)
        sum_error == SeqSum([ i \in 1..(n - 1) |->
                                Abs(values[i + 1] * scale - smoothed[i + 1]) ])
    IN  [ predicted_value |-> Some(value),
          confidence      |-> IF sum_error < 5 * (n - 1) * scale THEN "high"
                              ELSE IF sum_error < 15 * (n - 1) * scale THEN "medium"
                              ELSE "low",
          method          |-> "exponential_smoothing" ]

\* The score _select_best_prediction gives an estimate.
prediction_score(pred, current_value) ==
    LET predicted_val == pred.predicted_value[1]
        change        == Abs(predicted_val - 10 * current_value)
    IN  (IF pred.confidence = "high" THEN 3
         ELSE IF pred.confidence = "medium" THEN 2 ELSE 1)
        - (IF change > 1000 THEN 2 ELSE IF change > 500 THEN 1 ELSE 0)
        - (IF predicted_val < 200 \/ predicted_val > 6000 THEN 3 ELSE 0)
        + (IF pred.method = "linear_extrapolation" THEN 1 ELSE 0)

\* _select_best_prediction: max over the scored estimates, which keeps the
\* first of those with the highest score.
select_best_prediction(predictions, current_value) ==
    LET score(k) == prediction_score(predictions[k], current_value)
        best     == CHOOSE k \in 1..Len(predictions) :
                       /\ \A j \in 1..Len(predictions) : score(j) <= score(k)
                       /\ \A j \in 1..(k - 1) : score(j) < score(k)
    IN  predictions[best]

\* The estimates predict_future_value collects from the latest
\* trend_calculation_points readings: linear, polynomial (five readings or
\* more), exponential smoothing.
prediction_candidates(values, s) ==
    <<linear_extrapolation(values, s)>>
    \o (IF Len(values) >= 5 THEN <<polynomial_prediction(values, s)>> ELSE << >>)
    \o <<exponential_smoothing_prediction(values, s)>>

\* The values predict_future_value analyses: oldest first, the latest
\* trend_calculation_points of them.
recent_readings(rs, ts, s) ==
    LET n      == Len(rs)
        order  == NewestFirstOrder(ts)
        chrono == [ k \in 1..n |-> rs[order[n + 1 - k]] ]
        count  == IF n <= s.trend_calculation_points
                  THEN n ELSE s.trend_calculation_points
    IN  SubSeq(chrono, n - count + 1, n)

\* The predictor asking for two readings only.
predict_future_value_TwoReadings(rs, ts, s) ==
    IF Len(rs) < 2
    THEN [ predicted_value |-> None, confidence |-> "low",
           method |-> "insufficient_data" ]
    ELSE LET recent == recent_readings(rs, ts, s)
         IN  select_best_prediction(prediction_candidates(recent, s),
                                    recent[Len(recent)])

predict_future_value(rs, ts, s) ==
    IF Len(rs) < 3
    THEN [ predicted_value |-> None, confidence |-> "low",
           method |-> "insufficient_data" ]
    ELSE LET recent == recent_readings(rs, ts, s)
         IN  select_best_prediction(prediction_candidates(recent, s),
                                    recent[Len(recent)])

-----------------------------------------------------------------------------
(* InsulinRecommendation                                                   *)

\* The current value read from the oldest entry of the list.
current_reading_value_Last(rs) == rs[Len(rs)]

\* "current_reading = readings[0]; current_value = current_reading.value"
current_reading_value(rs) == rs[1]

FirstFour(rs) == SubSeq(rs, 1, 4)

SeqMax(sq) == CHOOSE m \in { sq[i] : i \in DOMAIN sq } :
                  \A i \in DOMAIN sq : sq[i] <= m

SeqMin(sq) == CHOOSE m \in { sq[i] : i \in DOMAIN sq } :
                  \A i \in DOMAIN sq : sq[i] >= m

\* The stable-elevated check with a variation limit of 20 mg/dL.
is_stable_elevated_pattern_NarrowSpread(rs, s) ==
    IF Len(rs) < 4 THEN FALSE
    ELSE LET recent_values == FirstFour(rs)
         IN  IF SeqSum(recent_values) < 4 * s.high_glucose_threshold THEN FALSE
             ELSE IF SeqMax(recent_values) - SeqMin(recent_values) > 20 THEN FALSE
             ELSE IF recent_values[1] < recent_values[4] - 10 THEN FALSE
             ELSE TRUE

is_stable_elevated_pattern(rs, s) ==
    IF Len(rs) < 4 THEN FALSE
    ELSE LET recent_values == FirstFour(rs)
         IN  \* avg_value < high  <=>  sum < 4 * high
             IF SeqSum(recent_values) < 4 * s.high_glucose_threshold THEN FALSE
             ELSE IF SeqMax(recent_values) - SeqMin(recent_values) > 40 THEN FALSE
             ELSE IF recent_values[1] < recent_values[4] - 10 THEN FALSE
             ELSE TRUE

\* is_safe_slow_correction without its rate band (safety threshold 2).
is_safe_slow_correction_NoRateBand(current_value, rate_of_change, rs) ==
    LET high_safety_threshold == 220
    IN  IF current_value < high_safety_threshold THEN FALSE
        ELSE IF Len(rs) < 4 THEN FALSE
        ELSE LET recent_values == FirstFour(rs)
             IN  IF SeqMin(recent_values) < high_safety_threshold THEN FALSE
                 ELSE IF \E i \in 1..3 : recent_values[i] >= recent_values[i + 1]
                      THEN FALSE
                 ELSE IF Abs(recent_values[4] - recent_values[1]) > 20 THEN FALSE
                 ELSE TRUE

\* rate_of_change in 1/100 mg/dL/min, as stored in the trend dict
is_safe_slow_correction(current_value, rate_of_change, rs) ==
    LET high_safety_threshold == 220
    IN  IF current_value < high_safety_threshold THEN FALSE
        ELSE IF rate_of_change > -10 \/ rate_of_change < -80 THEN FALSE
        ELSE IF Len(rs) < 4 THEN FALSE
        ELSE LET recent_values == FirstFour(rs)
             IN  IF SeqMin(recent_values) < high_safety_threshold THEN FALSE
                 ELSE IF \E i \in 1..3 : recent_values[i] >= recent_values[i + 1]
                      THEN FALSE
                 ELSE IF Abs(recent_values[4] - recent_values[1]) > 20 THEN FALSE
                 ELSE TRUE

\* The safety limits without the upper one.
InsulinSafetyLimits_NoCap(insulin_units) == Max(1000, insulin_units)

\* max(0.1, min(2.0, insulin_units)), in 1/10000 unit
InsulinSafetyLimits(insulin_units) == Max(1000, Min(20000, insulin_units))

\* The slow-correction dose left at the full dose.
SlowCorrectionDose_Full(insulin_units) == insulin_units

\* "insulin_units *= 0.5", in 1/10000 unit
SlowCorrectionDose(insulin_units) == insulin_units \div 2

\* "if iob_cob_data and iob_cob_data.get('iob', {}).get('total_iob', 0) > 0"
HasActiveIob(iob_cob) == iob_cob # None /\ iob_cob[1].iob.total_iob > 0

\* "if current_iob > self.settings.iob_threshold_high: return None"
IobAboveThreshold(current_iob, s) == current_iob > s.iob_threshold_high

\* The elevation test taken against the target instead of the high threshold.
NotElevated_BelowTarget(current_value, s) == current_value < s.target_glucose

\* "if current_value < self.settings.high_glucose_threshold: return None"
NotElevated(current_value, s) == current_value < s.high_glucose_threshold

\* The rapid-fall block without 'fast_down'.
RapidlyFalling_VeryFastOnly(trend) == trend.trend = "very_fast_down"

\* "if trend_analysis.get('trend') in ['fast_down', 'very_fast_down']"
RapidlyFalling(trend) == trend.trend \in {"fast_down", "very_fast_down"}

InsulinRecommendation_analyze(rs, trend, pred, iob_cob, s) ==
    IF rs = << >> \/ ~s.enable_insulin_recommendations THEN None
    ELSE
    LET current_value == current_reading_value(rs)
        has_iob       == HasActiveIob(iob_cob)
        current_iob   == IF has_iob THEN iob_cob[1].iob.total_iob ELSE 0
    IN  IF has_iob /\ IobAboveThreshold(current_iob, s) THEN None
        ELSE IF NotElevated(current_value, s) THEN None
        ELSE IF RapidlyFalling(trend) THEN None
        ELSE IF trend.trend = "down"
                /\ ~is_safe_slow_correction(current_value, trend.rate_of_change, rs)
             THEN None
        ELSE IF ~is_stable_elevated_pattern(rs, s) THEN None
        ELSE
        LET excess_glucose  == current_value - s.target_glucose
            \* 1/100 mg/dL
            iob_adjustment  == current_iob * s.insulin_effectiveness
            adjusted_excess == 100 * excess_glucose - iob_adjustment
        IN  IF adjusted_excess <= 0 THEN None
            ELSE
            LET \* (adjusted_excess / effectiveness) * unit_ratio
                full_units == (adjusted_excess * s.insulin_unit_ratio)
                                 \div (10 * s.insulin_effectiveness)
                insulin_units == IF trend.trend = "down"
                                 THEN SlowCorrectionDose(full_units)
                                 ELSE full_units
                limited == InsulinSafetyLimits(insulin_units)
            IN  Some([ type              |-> "insulin",
                       priority          |-> 2,
                       recommended_units |-> Round(limited, 1000),
                       current_glucose   |-> current_value,
                       current_iob       |-> current_iob,
                       correction_type   |-> IF trend.trend = "down"
                                             THEN "slow_correction"
                                             ELSE "standard" ])

-----------------------------------------------------------------------------
(* CarbRecommendation                                                      *)

\* The dose without its safety limit of 30 g.
CarbDose_NoCap(glucose_deficit, s) ==
    Max(1500, (glucose_deficit * 1500) \div s.carb_effectiveness)

\* max(15, deficit / carb_effectiveness * 15) capped at 30, in 1/100 g
CarbDose(glucose_deficit, s) ==
    LET base == Max(1500, (glucose_deficit * 1500) \div s.carb_effectiveness)
    IN  Min(base, 3000)

\* The ladder whose third rung ignores the trend.
CarbLadder_AnyTrend(current_value, trend, s) ==
    IF current_value <= s.critical_low_threshold THEN "critical"
    ELSE IF current_value <= s.low_glucose_threshold THEN "high"
    ELSE IF 10 * current_value <= 12 * s.low_glucose_threshold THEN "medium"
    ELSE "low"

\* The ladder with a strict comparison at the low threshold.
CarbLadder_Strict(current_value, trend, s) ==
    IF current_value <= s.critical_low_threshold THEN "critical"
    ELSE IF current_value < s.low_glucose_threshold THEN "high"
    ELSE IF 10 * current_value <= 12 * s.low_glucose_threshold
            /\ trend.trend \in {"fast_down", "very_fast_down"}
         THEN "medium"
    ELSE "low"

\* The urgency the threshold ladder assigns, "low" when no rung matches.
CarbLadder(current_value, trend, s) ==
    IF current_value <= s.critical_low_threshold THEN "critical"
    ELSE IF current_value <= s.low_glucose_threshold THEN "high"
    ELSE IF 10 * current_value <= 12 * s.low_glucose_threshold
            /\ trend.trend \in {"fast_down", "very_fast_down"}
         THEN "medium"
    ELSE "low"

\* "if predicted_value and predicted_value <= low_glucose_threshold"
PredictionIndicatesLow(predicted_value, s) ==
    Truthy(predicted_value)
    /\ predicted_value[1] <= 10 * s.low_glucose_threshold

CarbRecommendation_analyze(rs, trend, pred, iob_cob, s) ==
    IF rs = << >> \/ ~s.enable_carb_recommendations THEN None
    ELSE
    LET current_value == current_reading_value(rs)
        ladder        == CarbLadder(current_value, trend, s)
        needs_carbs   == ladder # "low"
    IN  IF ~needs_carbs THEN None
        ELSE
        LET urgency == IF PredictionIndicatesLow(pred.predicted_value, s)
                       THEN (IF ladder # "critical" THEN "high" ELSE ladder)
                       ELSE ladder
            raw_deficit     == s.low_glucose_threshold - current_value
            glucose_deficit == IF raw_deficit < 0 THEN 0 ELSE raw_deficit
            carb_grams      == CarbDose(glucose_deficit, s)
        IN  Some([ type              |-> "carbohydrate",
                   priority          |-> 1,
                   urgency           |-> urgency,
                   recommended_carbs |-> Round(carb_grams, 100),
                   current_glucose   |-> current_value,
                   glucose_deficit   |-> glucose_deficit ])

-----------------------------------------------------------------------------
(* MonitoringRecommendation.  now is datetime.now(), in minutes since      *)
(* midnight.                                                               *)

MonitoringRecommendation_analyze(rs, trend, pred, iob_cob, s, now) ==
    IF rs = << >> THEN None
    ELSE
    LET current_value == current_reading_value(rs)
        rapid     == trend.trend \in { "very_fast_up", "very_fast_down",
                                        "fast_up", "fast_down" }
        \* threshold * 1.1 >= current_value >= threshold * 0.9
        near_low  == /\ 11 * s.low_glucose_threshold >= 10 * current_value
                     /\ 10 * current_value >= 9 * s.low_glucose_threshold
        near_high == /\ 11 * s.high_glucose_threshold >= 10 * current_value
                     /\ 10 * current_value >= 9 * s.high_glucose_threshold
        uncertain == pred.confidence = "low" /\ Len(rs) >= 3
        current_hour == now \div 60
        night     == /\ (22 <= current_hour \/ current_hour <= 6)
                     /\ (current_value < 100 \/ current_value > 200)
        monitoring_reasons ==
            (IF rapid THEN <<"rapid glucose changes detected">> ELSE << >>)
            \o (IF near_low THEN <<"approaching low threshold">> ELSE << >>)
            \o (IF near_high THEN <<"approaching high threshold">> ELSE << >>)
            \o (IF uncertain THEN <<"unpredictable glucose pattern">> ELSE << >>)
            \o (IF night THEN <<"nighttime out-of-range values">> ELSE << >>)
        \* the last assignment wins
        frequency_minutes == IF night THEN 30
                             ELSE IF uncertain THEN 45
                             ELSE IF near_high \/ near_low THEN 30
                             ELSE IF rapid THEN 15
                             ELSE 60
    IN  IF monitoring_reasons = << >> THEN None
        ELSE Some([ type                    |-> "monitoring",
                    priority                |-> 5,
                    check_frequency_minutes |-> frequency_minutes,
                    reasons                 |-> monitoring_reasons,
                    \* now with its minute replaced: <<hour, minute>>
                    next_check_time         |->
                        <<current_hour, ((now % 60) + frequency_minutes) % 60>> ])

-----------------------------------------------------------------------------
(* IOBStatusRecommendation                                                 *)

\* The first scenario taken only when no on-board data is supplied.
NoUsableIob_NoDataOnly(iob_cob) == iob_cob = None

\* "if not has_iob_data or current_iob == 0.0"
NoUsableIob(iob_cob) == iob_cob = None \/ iob_cob[1].iob.total_iob = 0

\* The stale-override check with a limit of 0.6 units, the high-IOB limit.
StaleOverride_AboveHighIob(iob_cob) ==
    iob_cob[1].iob.is_override /\ iob_cob[1].iob.total_iob > 60

\* "iob_cob_data['iob'].get('is_override') and current_iob > 0.2"
StaleOverride(iob_cob) ==
    iob_cob[1].iob.is_override /\ iob_cob[1].iob.total_iob > 20

\* recommend_iob_check, urgency and reasons as the scenario ladder of
\* analyze leaves them; current_iob in 1/100 unit.
IobCheckOutcome(current_value, trend, pred, iob_cob, s) ==
    LET has_iob_data == iob_cob # None
        current_iob  == IF has_iob_data THEN iob_cob[1].iob.total_iob ELSE 0
        is_approaching_low ==
            \/ 10 * current_value <= 12 * s.low_glucose_threshold
            \/ PredictionIndicatesLow(pred.predicted_value, s)
        is_going_high_fast ==
            \/ trend.trend \in { "fast_up", "very_fast_up" }
            \/ trend.rate_of_change > 200
        Check(urgency, reasons) ==
            [ recommend_iob_check |-> TRUE, urgency |-> urgency, reasons |-> reasons ]
        NoCheck ==
            [ recommend_iob_check |-> FALSE, urgency |-> "low", reasons |-> << >> ]
    IN  IF NoUsableIob(iob_cob)
        THEN IF is_approaching_low
             THEN Check("high", <<"approaching low glucose - need accurate IOB for predictions">>)
             ELSE IF is_going_high_fast
             THEN Check("medium", <<"glucose rising fast - check if insulin was taken">>)
             ELSE IF current_value > s.high_glucose_threshold
             THEN Check("medium", <<"high glucose without IOB data">>)
             ELSE NoCheck
        ELSE IF is_approaching_low /\ current_iob > 30
             THEN Check("high", <<"approaching low with IOB - verify accuracy for safe predictions">>)
             ELSE IF is_going_high_fast /\ current_iob < 20
             THEN Check("medium", <<"glucose rising fast with low IOB - confirm no recent insulin">>)
             ELSE IF current_iob > 60
             THEN IF current_iob > 100
                     /\ trend.trend \notin { "down", "fast_down", "very_fast_down" }
                  THEN Check("high", <<"high IOB significantly affecting predictions",
                                       "high IOB but glucose not falling as expected">>)
                  ELSE Check("medium", <<"high IOB significantly affecting predictions">>)
             ELSE IF StaleOverride(iob_cob)
             THEN Check("low", <<"IOB override may need updating">>)
             ELSE NoCheck

IOBStatusRecommendation_analyze(rs, trend, pred, iob_cob, s) ==
    IF rs = << >> THEN None
    ELSE
    LET current_value == current_reading_value(rs)
        has_iob_data  == iob_cob # None
        current_iob   == IF has_iob_data THEN iob_cob[1].iob.total_iob ELSE 0
        outcome       == IobCheckOutcome(current_value, trend, pred, iob_cob, s)
    IN  IF ~outcome.recommend_iob_check THEN None
        ELSE Some([ type             |-> "iob_status",
                    priority         |-> 4,
                    urgency          |-> outcome.urgency,
                    current_iob      |-> current_iob,
                    reasons          |-> outcome.reasons,
                    suggested_action |-> IF has_iob_data
                                         THEN "Update IOB reading"
                                         ELSE "Check pump/Omnipod for current IOB",
                    \* expected_glucose_drop, in 1/10 mg/dL
                    expected_effect  |-> IF current_iob > 0
                                         THEN Some(Round(current_iob * s.insulin_effectiveness, 10))
                                         ELSE None ])

-----------------------------------------------------------------------------
(* RecommendationEngine.  A recommender is named by its class; raise_set   *)
(* holds the recommenders whose analyze raises an exception.               *)

CarbRecommender == "CarbRecommendation"

InsulinRecommender == "InsulinRecommendation"

MonitoringRecommender == "MonitoringRecommendation"

IOBStatusRecommender == "IOBStatusRecommendation"

\* self.recommenders as __init__ builds it
RegisteredRecommenders ==
    <<CarbRecommender, InsulinRecommender, MonitoringRecommender, IOBStatusRecommender>>

\* recommender.analyze(readings, trend_analysis, prediction, iob_cob_data)
recommender_analyze(name, rs, trend, pred, iob_cob, s, now) ==
    CASE name = CarbRecommender ->
            CarbRecommendation_analyze(rs, trend, pred, iob_cob, s)
      [] name = InsulinRecommender ->
            InsulinRecommendation_analyze(rs, trend, pred, iob_cob, s)
      [] name = MonitoringRecommender ->
            MonitoringRecommendation_analyze(rs, trend, pred, iob_cob, s, now)
      [] name = IOBStatusRecommender ->
            IOBStatusRecommendation_analyze(rs, trend, pred, iob_cob, s)

\* rec['timestamp'] = datetime.now(); rec['recommender'] = recommender.name
Stamped(rec, name, now) ==
    [ f \in DOMAIN rec \cup { "timestamp", "recommender" } |->
        IF f = "timestamp" THEN now
        ELSE IF f = "recommender" THEN name
        ELSE rec[f] ]

\* The loop with the first exception ending it.
RECURSIVE collect_recommendations_StopAtRaise(_, _, _, _, _, _, _, _)
collect_recommendations_StopAtRaise(names, raise_set, rs, trend, pred, iob_cob, s, now) ==
    IF names = << >> \/ Head(names) \in raise_set THEN << >>
    ELSE LET rec  == recommender_analyze(Head(names), rs, trend, pred, iob_cob, s, now)
             rest == collect_recommendations_StopAtRaise(Tail(names), raise_set, rs, trend, pred, iob_cob, s, now)
         IN  IF rec = None THEN rest
             ELSE <<Stamped(rec[1], Head(names), now)>> \o rest

\* The loop of get_recommendations: every recommender in list order, an
\* exception caught and the recommender skipped.
RECURSIVE collect_recommendations(_, _, _, _, _, _, _, _)
collect_recommendations(names, raise_set, rs, trend, pred, iob_cob, s, now) ==
    IF names = << >> THEN << >>
    ELSE LET rest == collect_recommendations(Tail(names), raise_set, rs, trend, pred, iob_cob, s, now)
         IN  IF Head(names) \in raise_set THEN rest
             ELSE LET rec == recommender_analyze(Head(names), rs, trend, pred, iob_cob, s, now)
                  IN  IF rec = None THEN rest
                      ELSE <<Stamped(rec[1], Head(names), now)>> \o rest

\* The list left as collected.
sort_by_priority_Unsorted(recs) == recs

\* recommendations.sort(key=lambda x: x['priority']): stable, ascending.
sort_by_priority(recs) ==
    LET n       == Len(recs)
        Rank(i) == Cardinality({ j \in 1..n :
                        \/ recs[j].priority < recs[i].priority
                        \/ (recs[j].priority = recs[i].priority /\ j < i) }) + 1
    IN  [ k \in 1..n |-> recs[CHOOSE i \in 1..n : Rank(i) = k] ]

get_recommendations(names, raise_set, rs, trend, pred, iob_cob, s, now) ==
    sort_by_priority(collect_recommendations(names, raise_set, rs, trend, pred, iob_cob, s, now))

\* r.get('urgency'): None when the dict has no such key
get_urgency(rec) == IF "urgency" \in DOMAIN rec THEN Some(rec.urgency) ELSE None

\* The filter on the priority alone.
get_critical_recommendations_PriorityOnly(recs) ==
    LET Keep(rec) == rec.priority <= 2
    IN  SelectSeq(recs, Keep)

\* [r for r in recommendations
\*    if r.get('urgency') == 'critical' or r['priority'] <= 2]
get_critical_recommendations(recs) ==
    LET Keep(rec) == get_urgency(rec) = Some("critical") \/ rec.priority <= 2
    IN  SelectSeq(recs, Keep)

-----------------------------------------------------------------------------
(* IOBCalculator.  An entry is a record                                    *)
(*   [timestamp, units, insulin_type, duration_minutes]  or                *)
(*   [timestamp, grams, carb_type, absorption_minutes],                    *)
(* times in minutes, amounts in 1/1000.                                    *)

\* exp(-n) for n = 0..9, in 1/10000
ExpOfMinusInteger == << 10000, 3679, 1353, 498, 183, 67, 25, 9, 3, 1 >>

\* The Taylor series of exp(-f/1000), 0 <= f < 1000, in 1/1000000.
RECURSIVE ExpSeries(_, _, _, _)
ExpSeries(f, k, term, acc) ==
    IF k > 10 THEN acc
    ELSE LET next == (term * f) \div (1000 * k)
         IN  ExpSeries(f, k + 1, next,
                       IF k % 2 = 1 THEN acc - next ELSE acc + next)

\* math.exp(-xm/1000) for xm >= 0, in 1/10000 (within one unit of it)
ExpNeg(xm) ==
    LET n == xm \div 1000
        f == xm % 1000
    IN  IF n > 9 THEN 0
        ELSE Round(ExpOfMinusInteger[n + 1]
                     * Round(ExpSeries(f, 1, 1000000, 1000000), 100), 10000)

\* math.exp(xm/1000) for either sign of xm, in 1/10000
Exp(xm) == IF xm <= 0 THEN ExpNeg(-xm) ELSE 100000000 \div ExpNeg(xm)

\* amount * fraction, the fraction in 1/10000 (split so that the product
\* stays within 32 bits).
MulFraction(amount, fraction) ==
    amount * (fraction \div 10000) + (amount * (fraction % 10000)) \div 10000

\* The fraction of a rapid dose the curve counts as acted, in 1/10000,
\* for minutes_elapsed > 0.
RapidActionFraction(minutes_elapsed) ==
    LET peak_time == 75
    IN  IF minutes_elapsed <= peak_time
        THEN (minutes_elapsed * 1500) \div peak_time
        ELSE LET time_after_peak == minutes_elapsed - peak_time
                 \* 1 - 0.15 - 0.85 * (1 - exp(-0.025 * time_after_peak))
                 remaining_fraction ==
                     10000 - 1500
                       - (8500 * (10000 - ExpNeg(25 * time_after_peak))) \div 10000
             IN  Max(0, remaining_fraction)

calculate_insulin_action(original_units, minutes_elapsed, duration_minutes, insulin_type) ==
    IF minutes_elapsed >= duration_minutes THEN 0
    ELSE IF insulin_type = "rapid"
    THEN IF minutes_elapsed <= 0 THEN original_units
         ELSE LET scaled == (RapidActionFraction(minutes_elapsed) * duration_minutes)
                               \div 180
              IN  MulFraction(original_units, 10000 - Min(scaled, 10000))
    ELSE IF insulin_type = "long_acting"
    THEN \* absorbed_fraction = time_fraction * 0.8
         (original_units * (10 * duration_minutes - 8 * minutes_elapsed))
            \div (10 * duration_minutes)
    ELSE \* absorbed_fraction = time_fraction
         (original_units * (duration_minutes - minutes_elapsed))
            \div duration_minutes

calculate_carb_absorption(original_grams, minutes_elapsed, absorption_minutes, carb_type) ==
    IF minutes_elapsed >= absorption_minutes THEN 0
    ELSE IF carb_type = "fast"
    THEN \* 1 - absorbed_fraction = exp(-3.0 * time_fraction)
         MulFraction(original_grams,
                     Exp(-((3000 * minutes_elapsed) \div absorption_minutes)))
    ELSE IF carb_type = "slow"
    THEN (original_grams * (absorption_minutes - minutes_elapsed))
            \div absorption_minutes
    ELSE LET fast_component ==
                 (4 * (10000 - Exp(-((2000 * minutes_elapsed) \div absorption_minutes))))
                    \div 10
             slow_component == (6000 * minutes_elapsed) \div absorption_minutes
             absorbed_fraction == fast_component + slow_component
         IN  MulFraction(original_grams, 10000 - absorbed_fraction)

\* The remaining amount the loop of calculate_iob finds for one entry.
remaining_iob(entry, now) ==
    LET time_since_dose == now - entry.timestamp
    IN  IF time_since_dose >= entry.duration_minutes THEN 0
        ELSE calculate_insulin_action(entry.units, time_since_dose,
                                      entry.duration_minutes, entry.insulin_type)

remaining_cob(entry, now) ==
    LET time_since_carbs == now - entry.timestamp
    IN  IF time_since_carbs >= entry.absorption_minutes THEN 0
        ELSE calculate_carb_absorption(entry.grams, time_since_carbs,
                                       entry.absorption_minutes, entry.carb_type)

\* The significance filter keeping every entry.
SignificantIob_KeepAll(remaining) == remaining >= 0

\* "if remaining_iob > 0.01": only significant amounts are kept
SignificantIob(remaining) == remaining > 10

\* "if remaining_cob > 0.5"
SignificantCob(remaining) == remaining > 500

\* The loop of calculate_iob: the entries kept, in order, each with its
\* unrounded remaining amount.
RECURSIVE IobLoop(_, _)
IobLoop(entries, now) ==
    IF entries = << >> THEN << >>
    ELSE LET entry == Head(entries)
             rem   == remaining_iob(entry, now)
         IN  (IF SignificantIob(rem)
              THEN << [ timestamp      |-> entry.timestamp,
                        original_units |-> entry.units,
                        remaining      |-> rem,
                        insulin_type   |-> entry.insulin_type ] >>
              ELSE << >>) \o IobLoop(Tail(entries), now)

RECURSIVE CobLoop(_, _)
CobLoop(entries, now) ==
    IF entries = << >> THEN << >>
    ELSE LET entry == Head(entries)
             rem   == remaining_cob(entry, now)
         IN  (IF SignificantCob(rem)
              THEN << [ timestamp      |-> entry.timestamp,
                        original_grams |-> entry.grams,
                        remaining      |-> rem,
                        carb_type      |-> entry.carb_type ] >>
              ELSE << >>) \o CobLoop(Tail(entries), now)

RECURSIVE SumRemaining(_)
SumRemaining(kept) ==
    IF kept = << >> THEN 0 ELSE Head(kept).remaining + SumRemaining(Tail(kept))

\* round(iob_override, 2): the override in 1/1000 unit, the total in 1/100
OverrideTotal(override_value) == Round(override_value, 10)

\* calculate_iob consulting the override only when no entry is logged.
calculate_iob_EntriesFirst(entries, now, override) ==
    IF override # None /\ entries = << >>
    THEN [ total_iob     |-> OverrideTotal(override[1]),
           breakdown     |-> << [ timestamp       |-> now,
                                  original_units  |-> override[1],
                                  remaining_units |-> override[1],
                                  insulin_type    |-> "override" ] >>,
           entries_count |-> 1,
           is_override   |-> TRUE ]
    ELSE LET kept == IobLoop(entries, now)
         IN  [ total_iob     |-> Round(SumRemaining(kept), 10),
               breakdown     |-> [ i \in DOMAIN kept |->
                                     [ timestamp       |-> kept[i].timestamp,
                                       original_units  |-> kept[i].original_units,
                                       remaining_units |-> Round(kept[i].remaining, 10),
                                       insulin_type    |-> kept[i].insulin_type ] ],
               entries_count |-> Len(kept),
               is_override   |-> FALSE ]

\* total_iob in 1/100 unit; remaining_units of a breakdown entry in 1/100
\* unit, except the override entry's, which is the override as given.
calculate_iob(entries, now, override) ==
    IF override # None
    THEN [ total_iob     |-> OverrideTotal(override[1]),
           breakdown     |-> << [ timestamp       |-> now,
                                  original_units  |-> override[1],
                                  remaining_units |-> override[1],
                                  insulin_type    |-> "override" ] >>,
           entries_count |-> 1,
           is_override   |-> TRUE ]
    ELSE LET kept == IobLoop(entries, now)
         IN  [ total_iob     |-> Round(SumRemaining(kept), 10),
               breakdown     |-> [ i \in DOMAIN kept |->
                                     [ timestamp       |-> kept[i].timestamp,
                                       original_units  |-> kept[i].original_units,
                                       remaining_units |-> Round(kept[i].remaining, 10),
                                       insulin_type    |-> kept[i].insulin_type ] ],
               entries_count |-> Len(kept),
               is_override   |-> FALSE ]

\* total_cob and remaining_grams in 1/10 g
calculate_cob(entries, now) ==
    LET kept == CobLoop(entries, now)
    IN  [ total_cob     |-> Round(SumRemaining(kept), 100),
          breakdown     |-> [ i \in DOMAIN kept |->
                                [ timestamp       |-> kept[i].timestamp,
                                  original_grams  |-> kept[i].original_grams,
                                  remaining_grams |-> Round(kept[i].remaining, 100),
                                  carb_type       |-> kept[i].carb_type ] ],
          entries_count |-> Len(kept) ]

-----------------------------------------------------------------------------
(* The inputs the rule modules are analysed on.                            *)

\* The longest window drawn.
MaxWindow == 4

\* Difference between a reading and the one after it (older minus newer),
\* for the windows of the insulin rule and of the carbohydrate rule.
InsulinDeltas == { -25, 0, 3, 5 }

CarbDeltas == { 0, 3, 25 }

\* Windows whose most recent value is in C: every length up to MaxWindow,
\* each older value differing from the next by one of D.
WindowOf(c, ds) ==
    [ i \in 1..(Len(ds) + 1) |-> c + SeqSum(SubSeq(ds, 1, i - 1)) ]

Windows(C, D) ==
    { << >> } \cup
    { WindowOf(c, ds) : c \in C,
                        ds \in UNION { [1..n -> D] : n \in 0..(MaxWindow - 1) } }

InsulinCurrentValues == { 179, 180, 219, 220, 230, 300 }

CarbCurrentValues == { 30, 50, 55, 56, 59, 70, 71, 84, 85, 120 }

\* Regression slopes, in 1/1000 mg/dL/min.
Rates == { -4500, -2500, -1200, -900, -804, -800, -500, -100, 0, 2500 }

\* total_iob values, in 1/100 unit.
IobTotals == { 0, 30, 150, 200, 250 }

OnBoard(total_iob, is_override, total_cob) ==
    Some([ iob |-> [ total_iob |-> total_iob, is_override |-> is_override ],
           cob |-> [ total_cob |-> total_cob ] ])

\* predicted_value, in 1/10 mg/dL
Prediction(predicted_value) ==
    [ predicted_value |-> predicted_value, confidence |-> "medium" ]

PredictedValues == { None, Some(0), Some(650), Some(700), Some(701), Some(1500) }

\* The variables of the on-board calculator, at rest.
CalculatorIdle ==
    /\ iob_overrides = << >>
    /\ insulin_entries = << >>
    /\ carb_entries = << >>
    /\ iob_override = None
    /\ current_time = 0
    /\ iob_data = None
    /\ cob_data = None

CalculatorVars ==
    <<insulin_entries, carb_entries, iob_override, iob_overrides, current_time,
      iob_data, cob_data>>

RuleInputs ==
    <<settings, readings, timestamps, trend_analysis, prediction, iob_cob_data>>

\* The timestamps of a window of n readings one interval apart, as
\* get_latest_readings orders it: the most recent first.
NewestFirstTimestamps(n) == [ i \in 1..n |-> (n - i) * ReadingInterval ]

\* The same window in chronological order.
OldestFirstTimestamps(n) == [ i \in 1..n |-> (i - 1) * ReadingInterval ]

\* The variables of the recommendation engine, at rest.
EngineIdle ==
    /\ wall_clock = 0
    /\ recommenders = << >>
    /\ raising = {}
    /\ recommendations = << >>
    /\ calls = 0
    /\ critical_recommendations = << >>

EngineVars ==
    <<wall_clock, recommenders, raising, recommendations, calls,
      critical_recommendations>>

-----------------------------------------------------------------------------
(* InsulinRecommendation.analyze applied to every input drawn.             *)

\* 2.9 units of insulin and 16.4 g of carbohydrate on board
CarbsOverwhelmingInsulin == OnBoard(290, FALSE, 164)

InitInsulin ==
    /\ settings \in SettingsSet
    /\ readings \in Windows(InsulinCurrentValues, InsulinDeltas)
    /\ timestamps = NewestFirstTimestamps(Len(readings))
    /\ \E rate \in Rates : trend_analysis = analyze_trend_result(rate, settings)
    /\ prediction \in { Prediction(None), Prediction(Some(1500)) }
    /\ iob_cob_data \in { None, CarbsOverwhelmingInsulin }
                           \cup { OnBoard(t, FALSE, 0) : t \in IobTotals }
    /\ recommendation = None
    /\ pc = "input"
    /\ CalculatorIdle
    /\ EngineIdle

AnalyzeInsulin ==
    /\ pc = "input"
    /\ recommendation' = InsulinRecommendation_analyze(readings, trend_analysis,
                                                       prediction, iob_cob_data, settings)
    /\ pc' = "done"
    /\ UNCHANGED <<RuleInputs, CalculatorVars, EngineVars>>

SpecInsulin == InitInsulin /\ [][AnalyzeInsulin]_vars

-----------------------------------------------------------------------------
(* CarbRecommendation.analyze applied to every input drawn.                *)

InitCarb ==
    /\ settings \in SettingsSet
    /\ readings \in Windows(CarbCurrentValues, CarbDeltas)
    /\ timestamps = NewestFirstTimestamps(Len(readings))
    /\ \E rate \in Rates : trend_analysis = analyze_trend_result(rate, settings)
    /\ prediction \in { Prediction(p) : p \in PredictedValues }
    /\ iob_cob_data \in { None, OnBoard(150, FALSE, 20000) }
    /\ recommendation = None
    /\ pc = "input"
    /\ CalculatorIdle
    /\ EngineIdle

AnalyzeCarb ==
    /\ pc = "input"
    /\ recommendation' = CarbRecommendation_analyze(readings, trend_analysis,
                                                    prediction, iob_cob_data, settings)
    /\ pc' = "done"
    /\ UNCHANGED <<RuleInputs, CalculatorVars, EngineVars>>

SpecCarb == InitCarb /\ [][AnalyzeCarb]_vars

-----------------------------------------------------------------------------
(* calculate_iob and calculate_cob applied to logged entries as the clock  *)
(* advances.                                                               *)

\* The longest entry list drawn.
MaxEntries == 2

\* Minutes between the timestamps of consecutive entries of a list.
EntrySpacing == 45

\* Minutes the clock advances in one step, and the number of steps.
TickMinutes == 15

MaxTicks == 50

\* duration_minutes as execute_insulin sets it per type, and a four-hour
\* rapid insulin; units 2.0 and 0.012.
InsulinKinds ==
    { [ insulin_type |-> "rapid",        duration_minutes |-> 180 ],
      [ insulin_type |-> "rapid",        duration_minutes |-> 240 ],
      [ insulin_type |-> "long_acting",  duration_minutes |-> 720 ],
      [ insulin_type |-> "intermediate", duration_minutes |-> 240 ] }

\* absorption_minutes as execute_carbs sets it per type
CarbKinds ==
    { [ carb_type |-> "fast",  absorption_minutes |-> 90 ],
      [ carb_type |-> "slow",  absorption_minutes |-> 180 ],
      [ carb_type |-> "mixed", absorption_minutes |-> 120 ] }

InsulinEntry(kind, units, timestamp) ==
    [ timestamp        |-> timestamp,
      units            |-> units,
      insulin_type     |-> kind.insulin_type,
      duration_minutes |-> kind.duration_minutes ]

CarbEntry(kind, grams, timestamp) ==
    [ timestamp          |-> timestamp,
      grams              |-> grams,
      carb_type          |-> kind.carb_type,
      absorption_minutes |-> kind.absorption_minutes ]

\* Entry lists: none, one entry of either amount, or up to MaxEntries
\* entries of the larger amount logged EntrySpacing minutes apart.
InsulinEntryLists ==
    { << >> } \cup
    { << InsulinEntry(k, 12, 0) >> : k \in InsulinKinds } \cup
    UNION { { [ i \in 1..n |-> InsulinEntry(ks[i], 2000, (i - 1) * EntrySpacing) ]
                : ks \in [1..n -> InsulinKinds] } : n \in 1..MaxEntries }

CarbEntryLists ==
    { << >> } \cup
    { << CarbEntry(k, 600, 0) >> : k \in CarbKinds } \cup
    UNION { { [ i \in 1..n |-> CarbEntry(ks[i], 30000, (i - 1) * EntrySpacing) ]
                : ks \in [1..n -> CarbKinds] } : n \in 1..MaxEntries }

\* iob_override, in 1/1000 unit: execute_iob_override accepts 0 to 10 units
Overrides == { None, Some(0), Some(1234) }

RuleIdle ==
    /\ settings = DefaultSettings
    /\ readings = << >>
    /\ timestamps = << >>
    /\ trend_analysis = analyze_trend_result(0, DefaultSettings)
    /\ prediction = Prediction(None)
    /\ iob_cob_data = None
    /\ recommendation = None

InitCalculator ==
    /\ insulin_entries \in InsulinEntryLists
    /\ carb_entries \in CarbEntryLists
    /\ iob_override \in Overrides
    /\ iob_overrides = << >>
    /\ current_time = 0
    /\ iob_data = None
    /\ cob_data = None
    /\ pc = "input"
    /\ RuleIdle
    /\ EngineIdle

\* get_iob_cob_summary: calculate_iob and calculate_cob at current_time
Summarize ==
    /\ pc = "input"
    /\ iob_data' = Some(calculate_iob(insulin_entries, current_time, iob_override))
    /\ cob_data' = Some(calculate_cob(carb_entries, current_time))
    /\ pc' = "done"
    /\ UNCHANGED <<RuleInputs, recommendation, insulin_entries, carb_entries,
                   iob_override, iob_overrides, current_time, EngineVars>>

\* The next cycle: the clock has advanced.
Tick ==
    /\ pc = "done"
    /\ current_time < MaxTicks * TickMinutes
    /\ current_time' = current_time + TickMinutes
    /\ pc' = "input"
    /\ UNCHANGED <<RuleInputs, recommendation, insulin_entries, carb_entries,
                   iob_override, iob_overrides, iob_data, cob_data, EngineVars>>

NextCalculator == Summarize \/ Tick

SpecCalculator == InitCalculator /\ [][NextCalculator]_vars

-----------------------------------------------------------------------------
(* TrendAnalyzer.analyze_trend on windows of readings one interval apart,  *)
(* handed over newest first (as the database does) or oldest first (as     *)
(* callers that build the list themselves do).                             *)

\* The longest window handed to the trend analyzer.
MaxTrendWindow == 5

RECURSIVE Reverse(_)
Reverse(sq) == IF sq = << >> THEN << >> ELSE Append(Reverse(Tail(sq)), Head(sq))

\* Windows, most recent value first, of every length up to n: the most
\* recent value in C, each older value differing from the next by one of D.
WindowsUpTo(C, D, n) ==
    { << >> } \cup
    { WindowOf(c, ds) : c \in C, ds \in UNION { [1..k -> D] : k \in 0..(n - 1) } }

TrendCurrentValues == { 120 }

\* Older value minus newer value.
TrendDeltas == { -20, -10, -5, 5, 10, 20 }

\* TREND_CALCULATION_POINTS=5
FivePointSettings == [ DefaultSettings EXCEPT !.trend_calculation_points = 5 ]

TrendSettingsSet == { DefaultSettings, TunedSettings, FivePointSettings }

InitTrend ==
    /\ settings \in TrendSettingsSet
    /\ \E w \in WindowsUpTo(TrendCurrentValues, TrendDeltas, MaxTrendWindow) :
          \/ /\ readings = w
             /\ timestamps = NewestFirstTimestamps(Len(w))
          \/ /\ readings = Reverse(w)
             /\ timestamps = OldestFirstTimestamps(Len(w))
    /\ trend_analysis = analyze_trend_result(0, DefaultSettings)
    /\ prediction = Prediction(None)
    /\ iob_cob_data = None
    /\ recommendation = None
    /\ pc = "input"
    /\ CalculatorIdle
    /\ EngineIdle

AnalyzeTrend ==
    /\ pc = "input"
    /\ trend_analysis' = analyze_trend(readings, timestamps, settings)
    /\ pc' = "done"
    /\ UNCHANGED <<settings, readings, timestamps, prediction, iob_cob_data,
                   recommendation, CalculatorVars, EngineVars>>

SpecTrend == InitTrend /\ [][AnalyzeTrend]_vars

-----------------------------------------------------------------------------
(* GlucosePredictor.predict_future_value on windows of readings one        *)
(* interval apart, newest first or oldest first.                           *)

\* The longest window handed to the predictor.
MaxPredictorWindow == 5

PredictorCurrentValues == { 40, 120 }

\* Older value minus newer value.
PredictorDeltas == { -12, 0, 5, 12 }

PredictorSettingsSet == { DefaultSettings, FivePointSettings }

InitPredictor ==
    /\ settings \in PredictorSettingsSet
    /\ \E w \in WindowsUpTo(PredictorCurrentValues, PredictorDeltas, MaxPredictorWindow) :
          \/ /\ readings = w
             /\ timestamps = NewestFirstTimestamps(Len(w))
          \/ /\ readings = Reverse(w)
             /\ timestamps = OldestFirstTimestamps(Len(w))
    /\ trend_analysis = analyze_trend_result(0, DefaultSettings)
    /\ prediction = Prediction(None)
    /\ iob_cob_data = None
    /\ recommendation = None
    /\ pc = "input"
    /\ CalculatorIdle
    /\ EngineIdle

Predict ==
    /\ pc = "input"
    /\ prediction' = predict_future_value(readings, timestamps, settings)
    /\ pc' = "done"
    /\ UNCHANGED <<settings, readings, timestamps, trend_analysis, iob_cob_data,
                   recommendation, CalculatorVars, EngineVars>>

SpecPredictor == InitPredictor /\ [][Predict]_vars

-----------------------------------------------------------------------------
(* The two analyses of a window, one after the other, as the callers of    *)
(* TrendAnalyzer and GlucosePredictor run them; here on the short windows  *)
(* of a database that is still filling.                                    *)

\* The longest window analysed.
MaxAnalysisWindow == 3

InitAnalysis ==
    /\ settings \in PredictorSettingsSet
    /\ \E w \in WindowsUpTo(PredictorCurrentValues, PredictorDeltas, MaxAnalysisWindow) :
          \/ /\ readings = w
             /\ timestamps = NewestFirstTimestamps(Len(w))
          \/ /\ readings = Reverse(w)
             /\ timestamps = OldestFirstTimestamps(Len(w))
    /\ trend_analysis = analyze_trend_result(0, DefaultSettings)
    /\ prediction = Prediction(None)
    /\ iob_cob_data = None
    /\ recommendation = None
    /\ pc = "input"
    /\ CalculatorIdle
    /\ EngineIdle

TrendStep ==
    /\ pc = "input"
    /\ trend_analysis' = analyze_trend(readings, timestamps, settings)
    /\ pc' = "trend"
    /\ UNCHANGED <<settings, readings, timestamps, prediction, iob_cob_data,
                   recommendation, CalculatorVars, EngineVars>>

PredictStep ==
    /\ pc = "trend"
    /\ prediction' = predict_future_value(readings, timestamps, settings)
    /\ pc' = "done"
    /\ UNCHANGED <<settings, readings, timestamps, trend_analysis, iob_cob_data,
                   recommendation, CalculatorVars, EngineVars>>

NextAnalysis == TrendStep \/ PredictStep

SpecAnalysis == InitAnalysis /\ [][NextAnalysis]_vars

-----------------------------------------------------------------------------
(* RecommendationEngine.get_recommendations, called repeatedly on the same *)
(* inputs while the wall clock advances.                                   *)

\* Calls of get_recommendations in a behaviour.
MaxCalls == 2

\* Minutes of wall-clock time between two calls.
ClockStep == 45

MinutesPerDay == 1440

\* Windows, most recent value first, one interval apart.
EngineWindows ==
    { << >>, <<120>>, <<65, 75, 90>>, <<190, 185>>,
      <<230, 230, 230, 230>>, <<230, 228, 226, 120>> }

\* Every order of the four recommenders in self.recommenders.
RecommenderOrders ==
    { order \in [1..4 -> { RegisteredRecommenders[i] : i \in 1..4 }] :
        \A i, j \in 1..4 : i # j => order[i] # order[j] }

\* At most one recommender raises.
RaiseSets == { {} } \cup { { RegisteredRecommenders[i] } : i \in 1..4 }

EngineTrends ==
    { analyze_trend_result(0, DefaultSettings),
      analyze_trend_result(2500, DefaultSettings) }

EnginePredictions ==
    { Prediction(Some(650)),
      [ predicted_value |-> None, confidence |-> "low", method |-> "insufficient_data" ] }

\* No active entry; insulin entries; carbohydrate entries only; overrides.
EngineOnBoard ==
    { None, OnBoard(150, FALSE, 0), OnBoard(0, FALSE, 200),
      OnBoard(25, TRUE, 0), OnBoard(80, TRUE, 0) }

\* 12:00 and 21:30
EngineClocks == { 720, 1290 }

InitEngine ==
    /\ settings = DefaultSettings
    /\ \E w \in EngineWindows :
          \/ /\ readings = w
             /\ timestamps = NewestFirstTimestamps(Len(w))
          \/ /\ readings = Reverse(w)
             /\ timestamps = OldestFirstTimestamps(Len(w))
    /\ trend_analysis \in EngineTrends
    /\ prediction \in EnginePredictions
    /\ iob_cob_data \in EngineOnBoard
    /\ recommendation = None
    /\ wall_clock \in EngineClocks
    /\ recommenders \in RecommenderOrders
    /\ raising \in RaiseSets
    /\ recommendations = << >>
    /\ calls = 0
    /\ critical_recommendations = << >>
    /\ pc = "input"
    /\ CalculatorIdle

GetRecommendations ==
    /\ pc = "input"
    /\ recommendations' = get_recommendations(recommenders, raising, readings,
                              trend_analysis, prediction, iob_cob_data,
                              settings, wall_clock)
    /\ calls' = calls + 1
    /\ pc' = "done"
    /\ UNCHANGED <<RuleInputs, recommendation, CalculatorVars, wall_clock,
                   recommenders, raising, critical_recommendations>>

\* Time passes until the next call with the same inputs.
Wait ==
    /\ pc = "done"
    /\ calls < MaxCalls
    /\ wall_clock' = (wall_clock + ClockStep) % MinutesPerDay
    /\ pc' = "input"
    /\ UNCHANGED <<RuleInputs, recommendation, CalculatorVars, recommenders,
                   raising, recommendations, calls, critical_recommendations>>

NextEngine == GetRecommendations \/ Wait

SpecEngine == InitEngine /\ [][NextEngine]_vars

-----------------------------------------------------------------------------
(* RecommendationEngine.get_critical_recommendations on lists of           *)
(* recommendation dicts, with and without the key 'urgency'.               *)

\* The longest list handed to the filter.
MaxListed == 3

ListedPriorities == { 1, 2, 3, 5 }

ListedUrgencies == { "critical", "high" }

\* The dicts a list is made of.
ListedRecommendations ==
    { [ type |-> "listed", priority |-> p ] : p \in ListedPriorities }
    \cup { [ type |-> "listed", priority |-> p, urgency |-> u ] :
              p \in ListedPriorities, u \in ListedUrgencies }

InitCritical ==
    /\ recommendations \in
          UNION { [1..n -> ListedRecommendations] : n \in 0..MaxListed }
    /\ critical_recommendations = << >>
    /\ wall_clock = 0
    /\ recommenders = RegisteredRecommenders
    /\ raising = {}
    /\ calls = 0
    /\ pc = "input"
    /\ RuleIdle
    /\ CalculatorIdle

GetCritical ==
    /\ pc = "input"
    /\ critical_recommendations' = get_critical_recommendations(recommendations)
    /\ pc' = "done"
    /\ UNCHANGED <<RuleInputs, recommendation, CalculatorVars, wall_clock,
                   recommenders, raising, recommendations, calls>>

SpecCritical == InitCritical /\ [][GetCritical]_vars

-----------------------------------------------------------------------------
(* Properties of InsulinRecommendation.analyze, under SpecInsulin.          *)

\* The rule module has returned.
Analyzed == pc = "done"

C2_SuppressedWhenTaggedFallingBelowBand ==
    ( /\ Analyzed
      /\ trend_analysis.rate_of_change < -80
      /\ trend_analysis.trend \in {"down", "fast_down", "very_fast_down"} )
    => recommendation = None

\* C2, as stated: no recommendation whenever rate_of_change is below -0.8
\* mg/dL/min.  It fails where the configured down threshold is above 0.8:
\* the tag is then no_change and the slow-correction gate is not consulted.
C2_SuppressedBelowBand ==
    (Analyzed /\ trend_analysis.rate_of_change < -80) => recommendation = None

\* Glucose 230 falling at -1.2 mg/dL/min over a slowly declining window all
\* above 220: only the rate band of the gate rejects.
C2_Witness ==
    /\ Analyzed
    /\ settings = DefaultSettings
    /\ readings = <<230, 233, 236, 239>>
    /\ trend_analysis.trend = "down"
    /\ trend_analysis.rate_of_change = -120
    /\ iob_cob_data = None
    /\ recommendation = None

\* C3: InsulinRecommendation returns no recommendation when the current
\* glucose value is below the configured high-glucose threshold.
C3_SuppressedBelowHighThreshold ==
    ( /\ Analyzed
      /\ readings # << >>
      /\ readings[1] < settings.high_glucose_threshold )
    => recommendation = None

\* The current value just below the threshold while the window's average
\* is above it and every other gate passes.
C3_Witness ==
    /\ Analyzed
    /\ settings.enable_insulin_recommendations
    /\ readings # << >>
    /\ readings[1] = settings.high_glucose_threshold - 1
    /\ is_stable_elevated_pattern(readings, settings)
    /\ trend_analysis.trend = "no_change"
    /\ iob_cob_data = None
    /\ recommendation = None

\* C8: every insulin recommendation produced, on the standard and on the
\* slow-correction path and under every configuration, has recommended_units
\* within [0.1, 2.0] (recommended_units is in 1/10 unit).
C8_UnitsWithinSafetyLimits ==
    (Analyzed /\ recommendation # None)
    => /\ recommendation[1].recommended_units >= 1
       /\ recommendation[1].recommended_units <= 20

\* The formula gives 10 units (300 over a target of 100, effectiveness 20,
\* unit ratio 1.0) and the recommendation carries 2.0.
C8_Witness ==
    /\ Analyzed
    /\ settings = TunedSettings
    /\ recommendation # None
    /\ recommendation[1].current_glucose = 300
    /\ recommendation[1].current_iob = 0
    /\ recommendation[1].correction_type = "standard"
    /\ recommendation[1].recommended_units = 20

-----------------------------------------------------------------------------
(* Properties of CarbRecommendation.analyze, under SpecCarb.                *)

\* C4: with carbohydrate recommendations enabled and a non-empty window,
\* CarbRecommendation returns a recommendation exactly when the current
\* value is at or below the low threshold, or at or below 1.2 x the low
\* threshold while the trend tag is fast_down or very_fast_down.
C4_FiresExactlyOnLowOrFallingTowardsLow ==
    ( /\ Analyzed
      /\ settings.enable_carb_recommendations
      /\ readings # << >> )
    => ( recommendation # None
         <=> \/ readings[1] <= settings.low_glucose_threshold
             \/ /\ 10 * readings[1] <= 12 * settings.low_glucose_threshold
                /\ trend_analysis.trend \in {"fast_down", "very_fast_down"} )

\* The current value exactly at 1.2 x the low threshold, falling fast:
\* the recommendation is there.
C4_Witness ==
    /\ Analyzed
    /\ settings.enable_carb_recommendations
    /\ readings # << >>
    /\ readings[1] > settings.low_glucose_threshold
    /\ 10 * readings[1] = 12 * settings.low_glucose_threshold
    /\ trend_analysis.trend = "fast_down"
    /\ recommendation # None
    /\ recommendation[1].type = "carbohydrate"

\* max(15, (low - current) / carb_effectiveness x 15) capped at 30, in
\* 1/100 g.
ClaimedCarbGrams ==
    LET deficit == settings.low_glucose_threshold - readings[1]
    IN  Min(Max(1500, (deficit * 1500) \div settings.carb_effectiveness), 3000)

\* C9, as amended: every carbohydrate recommendation has recommended_carbs
\* equal to max(15, (low_threshold - current) / carb_effectiveness x 15)
\* capped at 30 and then rounded to the nearest whole gram (a tie to the even
\* one), and therefore always within [15, 30] grams.
C9_CarbsAreRoundedClampedDose ==
    (Analyzed /\ recommendation # None)
    => /\ recommendation[1].recommended_carbs = Round(ClaimedCarbGrams, 100)
       /\ recommendation[1].recommended_carbs >= 15
       /\ recommendation[1].recommended_carbs <= 30

\* C9, as stated: recommended_carbs equals the clamped dose itself.  It fails
\* where the dose is not a whole number of grams: the code returns
\* round(carb_grams, 0).
C9_CarbsAreClampedDose ==
    (Analyzed /\ recommendation # None)
    => 100 * recommendation[1].recommended_carbs = ClaimedCarbGrams

\* A deficit of 11 at carb effectiveness 10: the formula gives 16.5 g and
\* the recommendation carries 16.
C9_Witness ==
    /\ Analyzed
    /\ settings = TunedSettings
    /\ recommendation # None
    /\ recommendation[1].glucose_deficit = 11
    /\ ClaimedCarbGrams = 1650
    /\ recommendation[1].recommended_carbs = 16

\* The urgency C10 assigns to a recommendation.
ClaimedUrgency ==
    LET current_value   == readings[1]
        predicted_value == prediction.predicted_value
    IN  IF current_value <= settings.critical_low_threshold THEN "critical"
        ELSE IF \/ current_value <= settings.low_glucose_threshold
                \/ /\ predicted_value # None
                   /\ predicted_value[1] <= 10 * settings.low_glucose_threshold
             THEN "high"
        ELSE "medium"

\* C10, as stated: a carbohydrate recommendation's urgency is critical when
\* the current value is at or below critical-low; otherwise high when the
\* current value or the predicted value is at or below the low threshold;
\* medium only otherwise.  It fails for a predicted value of 0.0, which the
\* code's truth test takes for a missing prediction.
C10_UrgencyFollowsLadderAndPrediction ==
    (Analyzed /\ recommendation # None)
    => recommendation[1].urgency = ClaimedUrgency

-----------------------------------------------------------------------------
(* Properties of the on-board calculator, under SpecCalculator.             *)

\* The entry has been logged: its elapsed time is not negative.
Logged(entry) == current_time >= entry.timestamp

\* C5, as stated: for every InsulinEntry and CarbEntry of any kind the
\* remaining amount is non-increasing in elapsed time; over every advance of
\* the clock, no logged entry's remaining amount grows.  It fails for rapid
\* insulin past the 75-minute peak, where the curve rises again.
C5_RemainingNeverGrows ==
    [][ /\ \A i \in DOMAIN insulin_entries :
            Logged(insulin_entries[i])
            => remaining_iob(insulin_entries[i], current_time')
                  <= remaining_iob(insulin_entries[i], current_time)
        /\ \A i \in DOMAIN carb_entries :
            Logged(carb_entries[i])
            => remaining_cob(carb_entries[i], current_time')
                  <= remaining_cob(carb_entries[i], current_time) ]_vars

InsulinExpired(entry) ==
    current_time - entry.timestamp >= entry.duration_minutes

CarbExpired(entry) ==
    current_time - entry.timestamp >= entry.absorption_minutes

InsulinNotExpired(entry) == ~InsulinExpired(entry)

CarbNotExpired(entry) == ~CarbExpired(entry)

\* C6: for every InsulinEntry/CarbEntry the remaining amount equals the
\* original amount at elapsed = 0 and is exactly 0 at or after
\* duration_minutes / absorption_minutes; an expired entry is absent from
\* the breakdown, and the result is what the entries not expired give alone.
C6_FullAtZeroGoneAtDuration ==
    Analyzed
    => /\ \A i \in DOMAIN insulin_entries :
            LET entry == insulin_entries[i]
            IN  /\ remaining_iob(entry, entry.timestamp) = entry.units
                /\ InsulinExpired(entry)
                   => /\ remaining_iob(entry, current_time) = 0
                      /\ iob_override = None
                         => \A j \in DOMAIN iob_data[1].breakdown :
                               iob_data[1].breakdown[j].timestamp # entry.timestamp
       /\ iob_override = None
          => iob_data[1] = calculate_iob(SelectSeq(insulin_entries, InsulinNotExpired),
                                         current_time, None)
       /\ \A i \in DOMAIN carb_entries :
            LET entry == carb_entries[i]
            IN  /\ remaining_cob(entry, entry.timestamp) = entry.grams
                /\ CarbExpired(entry)
                   => /\ remaining_cob(entry, current_time) = 0
                      /\ \A j \in DOMAIN cob_data[1].breakdown :
                            cob_data[1].breakdown[j].timestamp # entry.timestamp
       /\ cob_data[1] = calculate_cob(SelectSeq(carb_entries, CarbNotExpired),
                                      current_time)

\* Two insulin entries, the first expired and the second not, and a carb
\* entry expired: the breakdown holds the second insulin entry only.
C6_Witness ==
    /\ Analyzed
    /\ iob_override = None
    /\ Len(insulin_entries) = 2
    /\ InsulinExpired(insulin_entries[1])
    /\ InsulinNotExpired(insulin_entries[2])
    /\ Len(iob_data[1].breakdown) = 1
    /\ iob_data[1].breakdown[1].timestamp = insulin_entries[2].timestamp
    /\ iob_data[1].total_iob > 0
    /\ carb_entries # << >>
    /\ CarbExpired(carb_entries[1])
    /\ cob_data[1].breakdown = << >>
    /\ cob_data[1].total_cob = 0

\* C7, as amended: when an IOB override is supplied, calculate_iob returns
\* total_iob equal to the override rounded to two decimals, is_override =
\* true and exactly one synthetic breakdown entry, whatever insulin entries
\* are passed.
C7_OverrideShortCircuits ==
    (Analyzed /\ iob_override # None)
    => /\ iob_data[1].total_iob = Round(iob_override[1], 10)
       /\ iob_data[1].is_override
       /\ iob_data[1].entries_count = 1
       /\ Len(iob_data[1].breakdown) = 1
       /\ iob_data[1].breakdown[1].insulin_type = "override"
       /\ iob_data[1].breakdown[1].remaining_units = iob_override[1]

\* C7, as stated: total_iob equals the override value.  It fails for an
\* override with more than two decimals: the code returns
\* round(iob_override, 2).
C7_TotalIsOverride ==
    (Analyzed /\ iob_override # None)
    => 10 * iob_data[1].total_iob = iob_override[1]

\* An override of 1.234 units with two insulin entries still active: the
\* total is 1.23 and the breakdown is the override entry alone.
C7_Witness ==
    /\ Analyzed
    /\ iob_override = Some(1234)
    /\ Len(insulin_entries) = 2
    /\ \A i \in DOMAIN insulin_entries :
          /\ Logged(insulin_entries[i])
          /\ SignificantIob(remaining_iob(insulin_entries[i], current_time))
    /\ iob_data[1].total_iob = 123
    /\ iob_data[1].is_override
    /\ Len(iob_data[1].breakdown) = 1

-----------------------------------------------------------------------------
(* Further properties of InsulinRecommendation.analyze, under SpecInsulin.  *)

\* The on-board insulin the rule counts, in 1/100 unit.
CountedIob ==
    IF iob_cob_data # None /\ iob_cob_data[1].iob.total_iob > 0
    THEN iob_cob_data[1].iob.total_iob ELSE 0

\* adjusted_excess = (current - target) - IOB x effectiveness, in 1/100 mg/dL
AdjustedExcess ==
    100 * (readings[1] - settings.target_glucose)
       - CountedIob * settings.insulin_effectiveness

\* The three slow-correction safety checks as C11 words them.
SlowCorrectionChecksPass ==
    /\ Len(readings) >= 4
    /\ \A i \in 1..4 : readings[i] >= 220
    /\ trend_analysis.rate_of_change > -80
    /\ trend_analysis.rate_of_change < -10
    /\ \A i \in 1..3 : readings[i] < readings[i + 1]
    /\ readings[4] - readings[1] <= 20

\* C11, as stated: with trend tag down (and insulin recommendations
\* enabled), InsulinRecommendation fires as a slow correction whenever the
\* three slow-correction safety checks pass, adjusted_excess > 0 and
\* on-board insulin does not exceed the high-IOB threshold.  It fails for a
\* total drop of 11 to 20 mg/dL over the last 4 values: the gate accepts it
\* and the stable-elevated check that follows rejects it.
C11_SlowCorrectionFiresWhenChecksPass ==
    ( /\ Analyzed
      /\ settings.enable_insulin_recommendations
      /\ trend_analysis.trend = "down"
      /\ SlowCorrectionChecksPass
      /\ AdjustedExcess > 0
      /\ CountedIob <= settings.iob_threshold_high )
    => /\ recommendation # None
       /\ recommendation[1].correction_type = "slow_correction"

\* The case of C12: default thresholds, current glucose 230, tag no_change,
\* at least 4 readings whose 4 most recent values lie within a 40 mg/dL
\* spread, no on-board data.
StableHighCase ==
    /\ Analyzed
    /\ settings = DefaultSettings
    /\ Len(readings) >= 4
    /\ readings[1] = 230
    /\ trend_analysis.trend = "no_change"
    /\ SeqMax(FirstFour(readings)) - SeqMin(FirstFour(readings)) <= 40
    /\ iob_cob_data = None

\* recommended_units within [0.1, 2.0], in 1/10 unit
FiresWithinLimits ==
    /\ recommendation # None
    /\ recommendation[1].recommended_units >= 1
    /\ recommendation[1].recommended_units <= 20

\* C12, as amended: in that case, and with the newest of the 4 values not
\* more than 10 mg/dL below the oldest of them, InsulinRecommendation fires
\* with recommended_units in [0.1, 2.0].
C12_FiresOnStableHighNotFalling ==
    (StableHighCase /\ readings[1] >= readings[4] - 10) => FiresWithinLimits

\* C12, as stated: InsulinRecommendation fires in that case.  It fails when
\* the newest value is more than 10 mg/dL below the oldest of the 4: the
\* stable-elevated check takes the window for a falling one.
C12_FiresOnStableHigh == StableHighCase => FiresWithinLimits

\* 230 after three readings of 205: a spread of 25, not falling, and the
\* recommendation is there (0.6 units).
C12_Witness ==
    /\ StableHighCase
    /\ readings = <<230, 205, 205, 205>>
    /\ recommendation # None
    /\ recommendation[1].correction_type = "standard"
    /\ recommendation[1].recommended_units = 6

\* The standard recommendation for the same current glucose, on-board
\* insulin and configuration: the rule applied to a flat window with tag
\* no_change.
StandardCounterpart ==
    LET c == readings[1]
    IN  InsulinRecommendation_analyze(<<c, c, c, c>>,
                                      analyze_trend_result(0, settings),
                                      prediction, iob_cob_data, settings)

\* The standard dose before the safety limits, in 1/10000 unit.
StandardDoseBeforeLimits ==
    (AdjustedExcess * settings.insulin_unit_ratio)
        \div (10 * settings.insulin_effectiveness)

\* A slow-correction recommendation was produced and the standard one exists.
BothProduced ==
    /\ Analyzed
    /\ recommendation # None
    /\ recommendation[1].correction_type = "slow_correction"
    /\ StandardCounterpart # None

\* C13, as amended: whenever both are produced, the slow-correction
\* recommended_units is never larger than the standard recommended_units,
\* and it is strictly smaller than, and at most 60% of, the standard one
\* whenever the standard dose before the safety limits lies between 0.4 and
\* 2.0 units.
C13_SlowDoseAtMostStandard ==
    BothProduced
    => LET slow_units   == recommendation[1].recommended_units
           stable_units == StandardCounterpart[1].recommended_units
       IN  /\ slow_units <= stable_units
           /\ (StandardDoseBeforeLimits >= 4000 /\ StandardDoseBeforeLimits <= 20000)
              => /\ slow_units < stable_units
                 /\ 10 * slow_units <= 6 * stable_units

\* C13, as stated: the slow-correction recommended_units is strictly smaller
\* than, and at most 60% of, the standard one.  It fails where the safety
\* limits bind: a halved dose above 2.0 is cut to 2.0 like the standard
\* one, and one below 0.1 is raised to 0.1.
C13_SlowDoseAtMostSixtyPercent ==
    BothProduced
    => LET slow_units   == recommendation[1].recommended_units
           stable_units == StandardCounterpart[1].recommended_units
       IN  /\ slow_units < stable_units
           /\ 10 * slow_units <= 6 * stable_units

\* Glucose 230 falling slowly under the defaults: 0.6 units standard (0.55
\* before rounding), 0.3 as a slow correction.
C13_Witness ==
    /\ BothProduced
    /\ settings = DefaultSettings
    /\ readings = <<230, 233, 236, 239>>
    /\ iob_cob_data = None
    /\ StandardDoseBeforeLimits = 5500
    /\ StandardCounterpart[1].recommended_units = 6
    /\ recommendation[1].recommended_units = 3

-----------------------------------------------------------------------------
(* Properties of TrendAnalyzer.analyze_trend, under SpecTrend.             *)

\* The values of the window, oldest first.
ChronologicalValues ==
    LET order == NewestFirstOrder(timestamps)
    IN  [ k \in 1..Len(readings) |-> readings[order[Len(readings) + 1 - k]] ]

\* The unrounded slope analyze_trend classified, in 1/1000 mg/dL/min.
AnalyzedRate ==
    LET chrono == ChronologicalValues
        n      == Len(chrono)
        count  == Min(n, settings.trend_calculation_points)
    IN  calculate_rate_of_change(Reverse(SubSeq(chrono, n - count + 1, n)),
                                 NewestFirstTimestamps(count))

\* The window 100, 105, 110, 115, 120 under the default settings, analysed.
SteadyRiseAnalyzed ==
    /\ pc = "done"
    /\ settings = DefaultSettings
    /\ ChronologicalValues = <<100, 105, 110, 115, 120>>

\* C15 (as amended): for the readings 100, 105, 110, 115, 120 at 5-minute
\* spacing, analyze_trend under the default settings yields the trend "up",
\* a rate_of_change of exactly 1.0 mg/dL/min and the direction "stable":
\* the slope of the last three readings is 1.0, and the direction is
\* "rising" only above 1.0.
C15_SteadyRiseIsUpAndStable ==
    SteadyRiseAnalyzed =>
        /\ trend_analysis.trend = "up"
        /\ trend_analysis.rate_of_change = 100
        /\ trend_analysis.direction = "stable"

\* C15 as stated: the same window yields a trend in {up, fast_up}, a
\* rate_of_change above 1.0 and the direction "rising".
C15_SteadyRiseIsRising ==
    SteadyRiseAnalyzed =>
        /\ trend_analysis.trend \in { "up", "fast_up" }
        /\ trend_analysis.rate_of_change > 100
        /\ trend_analysis.direction = "rising"

C15_Witness ==
    /\ SteadyRiseAnalyzed
    /\ readings = <<120, 115, 110, 105, 100>>
    /\ trend_analysis.trend = "up"
    /\ trend_analysis.direction = "stable"

\* C16: a rate of change exactly equal to a tier threshold is classified
\* into the higher tier, in both directions: at the up, fast-up and
\* very-fast-up thresholds the trend is "up", "fast_up" and "very_fast_up",
\* and at minus the down thresholds it is "down", "fast_down" and
\* "very_fast_down".
C16_ThresholdRateIsHigherTier ==
    (pc = "done" /\ Len(readings) >= 2) =>
        /\ AnalyzedRate = settings.trend_up_threshold
              => trend_analysis.trend = "up"
        /\ AnalyzedRate = settings.trend_fast_up_threshold
              => trend_analysis.trend = "fast_up"
        /\ AnalyzedRate = settings.trend_very_fast_up_threshold
              => trend_analysis.trend = "very_fast_up"
        /\ AnalyzedRate = -settings.trend_down_threshold
              => trend_analysis.trend = "down"
        /\ AnalyzedRate = -settings.trend_fast_down_threshold
              => trend_analysis.trend = "fast_down"
        /\ AnalyzedRate = -settings.trend_very_fast_down_threshold
              => trend_analysis.trend = "very_fast_down"

\* A fall of exactly 2.0 mg/dL/min under the defaults, tagged fast_down.
C16_Witness ==
    /\ pc = "done"
    /\ settings = DefaultSettings
    /\ Len(readings) >= 3
    /\ AnalyzedRate = -settings.trend_fast_down_threshold
    /\ trend_analysis.trend = "fast_down"

-----------------------------------------------------------------------------
(* Properties of GlucosePredictor.predict_future_value, under              *)
(* SpecPredictor.                                                          *)

\* A predicted value, in 1/10 mg/dL, within 20..600 mg/dL.
Plausible(predicted_value) ==
    /\ predicted_value # None
    /\ predicted_value[1] >= 200
    /\ predicted_value[1] <= 6000

\* The estimates the predictor chose from.
Estimates == prediction_candidates(recent_readings(readings, timestamps, settings), settings)

\* C14: for any window of at least 3 readings, whenever at least one
\* estimator produces a value within [20, 600], the predicted_value of the
\* selected estimate lies within [20, 600].
C14_SelectedEstimateIsPlausible ==
    ( /\ pc = "done"
      /\ Len(readings) >= 3
      /\ \E k \in 1..Len(Estimates) : Plausible(Estimates[k].predicted_value) )
    => Plausible(prediction.predicted_value)

-----------------------------------------------------------------------------
(* Properties of RecommendationEngine.get_recommendations, under           *)
(* SpecEngine.                                                             *)

\* get_recommendations has returned.
Returned == pc = "done"

\* The value of the reading with the latest timestamp.
MaxTimestampValue == readings[NewestFirstOrder(timestamps)[1]]

\* The list is ordered as get_latest_readings delivers it.
NewestFirstWindow ==
    \A i, j \in 1..Len(timestamps) : i < j => timestamps[i] > timestamps[j]

\* The same readings, ordered newest first.
SortedNewestFirst ==
    [ k \in 1..Len(readings) |-> readings[NewestFirstOrder(timestamps)[k]] ]

\* Type, urgency and parameters of the recommendations: everything but the
\* time stamp the engine adds.
Declared(recs) ==
    [ i \in 1..Len(recs) |->
        [ f \in (DOMAIN recs[i]) \ { "timestamp" } |-> recs[i][f] ] ]

\* The recommendation of the given type in the returned list, if any.
Returns(type) == \E i \in 1..Len(recommendations) : recommendations[i].type = type

ReturnsReason(type, reason) ==
    \E i \in 1..Len(recommendations) :
        /\ recommendations[i].type = type
        /\ \E k \in 1..Len(recommendations[i].reasons) :
              recommendations[i].reasons[k] = reason

\* C17 (as amended): every rule module takes as the current value the value
\* of the first reading of the list it is given; when the list is ordered
\* newest first, that is the reading with the maximum timestamp.  Then the
\* insulin and carbohydrate recommendations report that value as current
\* glucose, the monitoring module gives the reasons "approaching low
\* threshold" and "approaching high threshold" exactly when that value is
\* within 10% of the threshold, and without on-board data, fast rise or low
\* prediction the IOB-status module fires exactly when that value is at
\* most 1.2 times the low threshold or above the high threshold.
C17_CurrentValueIsFirstReading ==
    (Returned /\ readings # << >> /\ NewestFirstWindow) =>
        /\ \A i \in 1..Len(recommendations) :
              recommendations[i].type \in { "insulin", "carbohydrate" }
                => recommendations[i].current_glucose = MaxTimestampValue
        /\ MonitoringRecommender \notin raising =>
              /\ ReturnsReason("monitoring", "approaching low threshold")
                    <=> /\ 10 * MaxTimestampValue >= 9 * settings.low_glucose_threshold
                        /\ 10 * MaxTimestampValue <= 11 * settings.low_glucose_threshold
              /\ ReturnsReason("monitoring", "approaching high threshold")
                    <=> /\ 10 * MaxTimestampValue >= 9 * settings.high_glucose_threshold
                        /\ 10 * MaxTimestampValue <= 11 * settings.high_glucose_threshold
        /\ ( /\ IOBStatusRecommender \notin raising
             /\ iob_cob_data = None
             /\ trend_analysis.trend = "no_change"
             /\ ~PredictionIndicatesLow(prediction.predicted_value, settings) )
           => ( Returns("iob_status")
                  <=> \/ 10 * MaxTimestampValue <= 12 * settings.low_glucose_threshold
                      \/ MaxTimestampValue > settings.high_glucose_threshold )

\* C17 as stated: the current value of every module is the value of the
\* reading with the maximum timestamp, and the result is the same as for
\* the readings in any other order, here newest first.
C17_SameForEveryOrdering ==
    (Returned /\ readings # << >>) =>
        /\ \A i \in 1..Len(recommendations) :
              recommendations[i].type \in { "insulin", "carbohydrate" }
                => recommendations[i].current_glucose = MaxTimestampValue
        /\ Declared(recommendations)
             = Declared(get_recommendations(recommenders, raising, SortedNewestFirst,
                                            trend_analysis, prediction, iob_cob_data,
                                            settings, wall_clock))

C17_Witness ==
    /\ Returned
    /\ NewestFirstWindow
    /\ readings = <<65, 75, 90>>
    /\ raising = {}
    /\ ReturnsReason("monitoring", "approaching low threshold")
    /\ \E i \in 1..Len(recommendations) :
          /\ recommendations[i].type = "carbohydrate"
          /\ recommendations[i].current_glucose = 65

\* C18: two calls of get_recommendations with identical inputs return
\* recommendations with the same types, urgencies and parameters, whatever
\* the wall-clock time of each call and whatever was called before.
C18_SameInputsSameRecommendations ==
    [][ (pc = "input" /\ pc' = "done" /\ calls >= 1)
          => Declared(recommendations') = Declared(recommendations) ]_vars

\* The recommenders that did not raise and returned a recommendation.
Survivors ==
    { name \in { recommenders[i] : i \in 1..Len(recommenders) } \ raising :
        recommender_analyze(name, readings, trend_analysis, prediction,
                            iob_cob_data, settings, wall_clock) # None }

\* C19: if a recommender raises, get_recommendations still returns, and
\* the returned list holds exactly the recommendations of the recommenders
\* that did not raise: one entry for each of them, none for another.
C19_RaisingRecommenderIsSkipped ==
    Returned =>
        /\ Len(recommendations) = Cardinality(Survivors)
        /\ \A name \in Survivors :
              \E i \in 1..Len(recommendations) :
                 recommendations[i] =
                    Stamped(recommender_analyze(name, readings, trend_analysis,
                                prediction, iob_cob_data, settings, wall_clock)[1],
                            name, wall_clock)

\* The first recommender run raises, and two later ones are returned.
C19_Witness ==
    /\ Returned
    /\ raising = { CarbRecommender }
    /\ recommenders[1] = CarbRecommender
    /\ Len(recommendations) >= 2

\* The priority of each type of recommendation.
PriorityOf(type) ==
    CASE type = "carbohydrate" -> 1
      [] type = "insulin"      -> 2
      [] type = "iob_status"   -> 4
      [] type = "monitoring"   -> 5

\* C20: the returned list is in order of non-decreasing priority
\* (carbohydrate 1, insulin 2, IOB-status 4, monitoring 5), whichever
\* recommenders fired and in whatever order they are registered and run.
C20_OrderedByPriority ==
    Returned =>
        /\ \A i \in 1..Len(recommendations) :
              recommendations[i].priority = PriorityOf(recommendations[i].type)
        /\ \A i, j \in 1..Len(recommendations) :
              i < j => recommendations[i].priority <= recommendations[j].priority

\* Monitoring ran first and carbohydrate last, three recommenders fired.
C20_Witness ==
    /\ Returned
    /\ recommenders[1] = MonitoringRecommender
    /\ recommenders[4] = CarbRecommender
    /\ Len(recommendations) = 3
    /\ recommendations[1].type = "carbohydrate"
    /\ recommendations[3].type = "monitoring"

-----------------------------------------------------------------------------
(* Properties of RecommendationEngine.get_critical_recommendations, under  *)
(* SpecCritical.                                                           *)

\* The positions of the list whose dict has priority <= 2 or urgency
\* critical.
CriticalPositions ==
    { j \in 1..Len(recommendations) :
        \/ recommendations[j].priority <= 2
        \/ ( "urgency" \in DOMAIN recommendations[j]
             /\ recommendations[j].urgency = "critical" ) }

\* C21: get_critical_recommendations(list) returns exactly the elements of
\* list whose priority is <= 2 or whose urgency is critical, in their
\* original order, and no other element.
C21_CriticalFilterKeepsExactlyCritical ==
    pc = "done" =>
        /\ Len(critical_recommendations) = Cardinality(CriticalPositions)
        /\ \A j \in CriticalPositions :
              critical_recommendations[Cardinality({ k \in CriticalPositions : k <= j })]
                 = recommendations[j]

\* A list of three, the first kept for its urgency, the second dropped, the
\* third kept for its priority.
C21_Witness ==
    /\ pc = "done"
    /\ recommendations = << [ type |-> "listed", priority |-> 5, urgency |-> "critical" ],
                            [ type |-> "listed", priority |-> 3, urgency |-> "high" ],
                            [ type |-> "listed", priority |-> 2 ] >>
    /\ critical_recommendations
          = << [ type |-> "listed", priority |-> 5, urgency |-> "critical" ],
               [ type |-> "listed", priority |-> 2 ] >>

-----------------------------------------------------------------------------
(* Properties of MonitoringRecommendation and IOBStatusRecommendation,     *)
(* under SpecEngine.                                                       *)

\* The check interval, in minutes, that goes with a monitoring reason.
ReasonInterval(reason) ==
    CASE reason = "rapid glucose changes detected" -> 15
      [] reason = "approaching low threshold"      -> 30
      [] reason = "approaching high threshold"     -> 30
      [] reason = "unpredictable glucose pattern"  -> 45
      [] reason = "nighttime out-of-range values"  -> 30

\* C22: when several monitoring reasons match in the same call,
\* check_frequency_minutes is the smallest interval among the matched
\* reasons (rapid change 15, near a threshold 30, low-confidence prediction
\* 45, nighttime out-of-range 30).
C22_TightestIntervalWins ==
    Returned =>
        \A i \in 1..Len(recommendations) :
            recommendations[i].type = "monitoring" =>
                LET reasons == recommendations[i].reasons
                IN  /\ \E k \in 1..Len(reasons) :
                          recommendations[i].check_frequency_minutes
                             = ReasonInterval(reasons[k])
                    /\ \A k \in 1..Len(reasons) :
                          recommendations[i].check_frequency_minutes
                             <= ReasonInterval(reasons[k])

\* is_approaching_low of IOBStatusRecommendation.analyze, on the first
\* reading of the window.
ApproachingLow ==
    \/ 10 * readings[1] <= 12 * settings.low_glucose_threshold
    \/ PredictionIndicatesLow(prediction.predicted_value, settings)

\* The IOB-status recommender ran on a window with a reading in it.
IobStatusRan == Returned /\ readings # << >> /\ IOBStatusRecommender \notin raising

\* C23 (as amended): the recommendation "approaching low with IOB" is
\* produced only when on-board data with total IOB > 0.3 is supplied and
\* the approaching-low condition holds; the high-urgency recommendation
\* "approaching low glucose - need accurate IOB" is produced exactly when
\* the approaching-low condition holds and either no on-board data is
\* supplied or the supplied total IOB is 0.
C23_ApproachingLowByIobData ==
    IobStatusRan =>
        /\ ReturnsReason("iob_status",
                "approaching low with IOB - verify accuracy for safe predictions")
              => /\ iob_cob_data # None
                 /\ iob_cob_data[1].iob.total_iob > 30
                 /\ ApproachingLow
        /\ ReturnsReason("iob_status",
                "approaching low glucose - need accurate IOB for predictions")
              <=> /\ ApproachingLow
                  /\ (iob_cob_data = None \/ iob_cob_data[1].iob.total_iob = 0)
        /\ \A i \in 1..Len(recommendations) :
              ( /\ recommendations[i].type = "iob_status"
                /\ \E k \in 1..Len(recommendations[i].reasons) :
                      recommendations[i].reasons[k] \in
                        { "approaching low with IOB - verify accuracy for safe predictions",
                          "approaching low glucose - need accurate IOB for predictions" } )
              => recommendations[i].urgency = "high"

\* C23 as stated: with on-board data supplied, approaching low yields a
\* recommendation only if total IOB > 0.3, and the recommendation
\* "approaching low glucose - need accurate IOB" is produced only when no
\* on-board data is supplied.
C23_ApproachingLowOnlyWithoutData ==
    IobStatusRan =>
        /\ (iob_cob_data # None /\ ApproachingLow /\ Returns("iob_status"))
              => iob_cob_data[1].iob.total_iob > 30
        /\ ReturnsReason("iob_status",
                "approaching low glucose - need accurate IOB for predictions")
              => iob_cob_data = None

\* On-board data with carbohydrates only: total IOB 0, approaching low.
C23_Witness ==
    /\ IobStatusRan
    /\ readings = <<65, 75, 90>>
    /\ iob_cob_data = OnBoard(0, FALSE, 200)
    /\ ReturnsReason("iob_status",
            "approaching low glucose - need accurate IOB for predictions")

\* The supplied on-board data is an override with total IOB > 0.2.
ActiveOverride ==
    /\ iob_cob_data # None
    /\ iob_cob_data[1].iob.is_override
    /\ iob_cob_data[1].iob.total_iob > 20

\* C29: whenever the supplied on-board data is an override with total IOB
\* above 0.2 and the window is not empty, IOBStatusRecommendation returns a
\* recommendation, whatever the glucose values, trend and prediction are,
\* so that the list get_recommendations returns is not empty.
C29_ActiveOverrideAlwaysReported ==
    (IobStatusRan /\ ActiveOverride) =>
        /\ IOBStatusRecommendation_analyze(readings, trend_analysis, prediction,
                                           iob_cob_data, settings) # None
        /\ Returns("iob_status")
        /\ recommendations # << >>

\* In range, no trend, no low prediction: only the override is reported.
C29_Witness ==
    /\ IobStatusRan
    /\ ActiveOverride
    /\ readings = <<120>>
    /\ trend_analysis.trend = "no_change"
    /\ ReturnsReason("iob_status", "IOB override may need updating")

-----------------------------------------------------------------------------
(* Properties of the analyses on short windows, under SpecAnalysis.        *)

\* C24: too little data is returned as data: with fewer than 2 readings
\* analyze_trend returns the neutral result (trend no_change, rate 0,
\* is_stable true), and with fewer than 3 readings predict_future_value
\* returns predicted_value None with method insufficient_data.
C24_TooFewReadingsIsData ==
    /\ (pc \in { "trend", "done" } /\ Len(readings) < 2) =>
          /\ trend_analysis.trend = "no_change"
          /\ trend_analysis.rate_of_change = 0
          /\ trend_analysis.is_stable
    /\ (pc = "done" /\ Len(readings) < 3) =>
          /\ prediction.predicted_value = None
          /\ prediction.method = "insufficient_data"

\* One reading: neither a trend nor a prediction can be computed.
C24_Witness ==
    /\ pc = "done"
    /\ readings = <<40>>
    /\ trend_analysis.trend = "no_change"
    /\ trend_analysis.is_stable
    /\ prediction.predicted_value = None
    /\ prediction.method = "insufficient_data"

-----------------------------------------------------------------------------
(* Bounds of the remaining amounts, under SpecCalculator.                  *)

\* C28: for every insulin or carbohydrate entry and every current time,
\* also a current time earlier than the entry's timestamp, the remaining
\* amount the calculator reports lies between 0 and the original amount.
\* remaining_units is in 1/100 unit and remaining_grams in 1/10 g, the
\* original amounts in 1/1000.
C28_RemainingWithinOriginal ==
    pc = "done" =>
        /\ iob_data[1].is_override \/
           \A i \in DOMAIN iob_data[1].breakdown :
               LET line == iob_data[1].breakdown[i]
               IN  0 <= line.remaining_units
                   /\ line.remaining_units * 10 <= line.original_units
        /\ \A i \in DOMAIN cob_data[1].breakdown :
               LET line == cob_data[1].breakdown[i]
               IN  0 <= line.remaining_grams
                   /\ line.remaining_grams * 100 <= line.original_grams

-----------------------------------------------------------------------------
(* The time of the next check, under SpecEngine.                           *)

\* C30: the next_check_time of a monitoring recommendation is the wall
\* clock time exactly check_frequency_minutes after the time of the
\* analysis, also when the interval runs across an hour boundary.
C30_NextCheckIsFrequencyLater ==
    Returned =>
        \A i \in 1..Len(recommendations) :
            recommendations[i].type = "monitoring" =>
                LET next_check_time == recommendations[i].next_check_time
                    frequency_minutes == recommendations[i].check_frequency_minutes
                IN  next_check_time[1] * 60 + next_check_time[2]
                        = (wall_clock + frequency_minutes) % MinutesPerDay

-----------------------------------------------------------------------------
(* Carbohydrate overwhelming the insulin on board, under SpecInsulin.      *)

\* C26: with glucose above the high threshold and rising fast while the
\* insulin on board exceeds the high-IOB threshold and carbohydrate is on
\* board as well, an insulin recommendation is still produced: a
\* supplemental dose of at most 0.5 units with priority 3.
C26_SupplementalDoseDespiteHighIob ==
    ( /\ pc = "done"
      /\ settings.enable_insulin_recommendations
      /\ readings # << >>
      /\ iob_cob_data # None )
    =>
    ( ( /\ current_reading_value(readings) > settings.high_glucose_threshold
        /\ trend_analysis.trend \in { "fast_up", "very_fast_up" }
        /\ iob_cob_data[1].iob.total_iob > settings.iob_threshold_high
        /\ iob_cob_data[1].cob.total_cob > 0 )
      =>
      ( /\ recommendation # None
        /\ recommendation[1].type = "insulin"
        /\ recommendation[1].recommended_units <= 5
        /\ recommendation[1].priority = 3 ) )

-----------------------------------------------------------------------------
(* get_recommendations under configurations whose thresholds lie close     *)
(* together, far apart, or in the wrong order.                             *)

\* critical_low_threshold, low_glucose_threshold, high_glucose_threshold:
\* the defaults; a low threshold whose 120% band reaches above the high
\* threshold; all three next to each other; low above high.
ThresholdTriples ==
    { <<55, 70, 180>>, <<55, 195, 200>>, <<195, 195, 196>>, <<55, 240, 180>> }

ThresholdSettings ==
    { [ DefaultSettings EXCEPT !.critical_low_threshold = t[1],
                               !.low_glucose_threshold  = t[2],
                               !.high_glucose_threshold = t[3] ]
        : t \in ThresholdTriples }

InitExclusive ==
    /\ settings \in ThresholdSettings
    /\ readings \in Windows(InsulinCurrentValues, InsulinDeltas)
                      \cup Windows(CarbCurrentValues, CarbDeltas)
    /\ timestamps = NewestFirstTimestamps(Len(readings))
    /\ \E rate \in Rates : trend_analysis = analyze_trend_result(rate, settings)
    /\ prediction = Prediction(Some(1500))
    /\ iob_cob_data \in { None, OnBoard(150, FALSE, 0) }
    /\ recommendation = None
    /\ wall_clock = 720
    /\ recommenders = RegisteredRecommenders
    /\ raising = {}
    /\ recommendations = << >>
    /\ calls = 0
    /\ critical_recommendations = << >>
    /\ pc = "input"
    /\ CalculatorIdle

SpecExclusive == InitExclusive /\ [][GetRecommendations]_vars

\* critical low <= low < high
OrderedThresholds(s) ==
    /\ s.critical_low_threshold <= s.low_glucose_threshold
    /\ s.low_glucose_threshold < s.high_glucose_threshold

\* C27: whenever the thresholds are ordered critical low <= low < high, one
\* call of get_recommendations never returns a carbohydrate recommendation
\* together with an insulin recommendation.
C27_NeverCarbAndInsulin ==
    (Returned /\ OrderedThresholds(settings)) =>
        ~(Returns("carbohydrate") /\ Returns("insulin"))

\* Insulin is recommended at a value inside the 120% band of the low
\* threshold, where a fast fall would have asked for carbohydrate.
C27_Witness ==
    /\ Returned
    /\ OrderedThresholds(settings)
    /\ Returns("insulin")
    /\ 10 * current_reading_value(readings) <= 12 * settings.low_glucose_threshold

-----------------------------------------------------------------------------
(* The monitoring cycle of main.py: a new reading every ReadingInterval    *)
(* minutes, analysed with the on-board data of the database, while the     *)
(* user logs IOB overrides.  Time is in minutes since midnight.            *)

\* Cycles in a behaviour, and overrides the user logs in it.
MaxCycles == 9

MaxOverrides == 2

\* 12:00, the wall-clock time of the first cycle
CycleStart == 12 * 60

\* ANALYSIS_WINDOW_SIZE
AnalysisWindowSize == 15

\* max_age_minutes of get_latest_iob_override
MaxOverrideAge == 30

\* Minutes between the sensor's time stamp on a reading and the cycle that
\* processes it.
SensorLags == { 0, 2 }

\* The value the sensor delivers.
CycleValues == { 120 }

\* iob_value of an override, in 1/1000 unit
OverrideValues == { 0, 1234 }

\* The insulin table: empty, a dose 20 minutes before the first cycle, or a
\* dose whose duration ends during the behaviour.
CycleInsulinTables ==
    { << >>,
      << InsulinEntry([ insulin_type |-> "rapid", duration_minutes |-> 180 ],
                      2000, CycleStart - 20) >>,
      << InsulinEntry([ insulin_type |-> "intermediate", duration_minutes |-> 240 ],
                      2000, CycleStart - 220) >> }

CycleCarbTables ==
    { << >>,
      << CarbEntry([ carb_type |-> "slow", absorption_minutes |-> 180 ],
                   30000, CycleStart - 20) >> }

\* "LIMIT ?" of get_latest_readings: the newest limit readings
Latest(sq, limit) == SubSeq(sq, 1, Min(Len(sq), limit))

\* "WHERE datetime(timestamp, '+' || duration_minutes || ' minutes') > ?"
get_active_insulin(entries, now) ==
    LET Active(entry) == entry.timestamp + entry.duration_minutes > now
    IN  SelectSeq(entries, Active)

\* "WHERE datetime(timestamp, '+' || absorption_minutes || ' minutes') > ?"
get_active_carbs(entries, now) ==
    LET Active(entry) == entry.timestamp + entry.absorption_minutes > now
    IN  SelectSeq(entries, Active)

\* The newest row of rows (distinct time stamps).
NewestRow(overrides, rows) ==
    overrides[CHOOSE i \in rows :
                 \A j \in rows : overrides[j].timestamp <= overrides[i].timestamp]

\* The lookup with "timestamp > cutoff".
get_latest_iob_override_StrictCutoff(overrides, now) ==
    LET cutoff_time == now - MaxOverrideAge
        rows == { i \in DOMAIN overrides : overrides[i].timestamp > cutoff_time }
    IN  IF rows = {} THEN None ELSE Some(NewestRow(overrides, rows))

\* "WHERE timestamp >= cutoff ORDER BY timestamp DESC LIMIT 1".  The time
\* stamps are compared as ISO strings of one format, which orders them as
\* the times they denote.
get_latest_iob_override(overrides, now) ==
    LET cutoff_time == now - MaxOverrideAge
        rows == { i \in DOMAIN overrides : overrides[i].timestamp >= cutoff_time }
    IN  IF rows = {} THEN None ELSE Some(NewestRow(overrides, rows))

\* The 'iob' and 'cob' parts of the summary, the parts the recommenders read.
get_iob_cob_summary(now, active_insulin, active_carbs, override) ==
    [ iob |-> calculate_iob(active_insulin, now, override),
      cob |-> calculate_cob(active_carbs, now) ]

\* iob_cob_data as _monitoring_cycle builds it at the reading's time stamp.
cycle_iob_cob_data(insulin, carbs, overrides, now) ==
    LET active_insulin     == get_active_insulin(insulin, now)
        active_carbs       == get_active_carbs(carbs, now)
        iob_override_entry == get_latest_iob_override(overrides, now)
        iob_override_value == IF iob_override_entry # None
                              THEN Some(iob_override_entry[1].iob_value)
                              ELSE None
    IN  IF active_insulin # << >> \/ active_carbs # << >> \/ iob_override_value # None
        THEN Some(get_iob_cob_summary(now, active_insulin, active_carbs,
                                      iob_override_value))
        ELSE None

InitCycle ==
    /\ RuleIdle
    /\ insulin_entries \in CycleInsulinTables
    /\ carb_entries \in CycleCarbTables
    /\ iob_override = None
    /\ iob_overrides = << >>
    /\ current_time = 0
    /\ iob_data = None
    /\ cob_data = None
    /\ wall_clock = CycleStart
    /\ recommenders = RegisteredRecommenders
    /\ raising = {}
    /\ recommendations = << >>
    /\ calls = 0
    /\ critical_recommendations = << >>
    /\ pc = "input"

\* _monitoring_cycle on a new reading of the sensor.
MonitoringCycle ==
    /\ pc = "input"
    /\ \E value \in CycleValues, lag \in SensorLags :
          LET reading_timestamp == IF timestamps = << >> THEN wall_clock - lag
                                   ELSE timestamps[1] + ReadingInterval
              window_values == Latest(<<value>> \o readings, AnalysisWindowSize)
              window_times  == Latest(<<reading_timestamp>> \o timestamps,
                                      AnalysisWindowSize)
          IN  /\ readings' = window_values
              /\ timestamps' = window_times
              /\ IF Len(window_values) < 2
                 THEN UNCHANGED <<trend_analysis, prediction, iob_cob_data,
                                  iob_override, current_time, iob_data, cob_data,
                                  recommendations, calls, critical_recommendations>>
                 ELSE /\ trend_analysis' = analyze_trend(window_values, window_times,
                                                         settings)
                      /\ prediction' = predict_future_value(window_values,
                                            window_times, settings)
                      /\ current_time' = reading_timestamp
                      /\ LET found == get_latest_iob_override(iob_overrides,
                                                              reading_timestamp)
                         IN  iob_override' = IF found # None
                                             THEN Some(found[1].iob_value) ELSE None
                      /\ iob_cob_data' = cycle_iob_cob_data(insulin_entries,
                                             carb_entries, iob_overrides,
                                             reading_timestamp)
                      /\ iob_data' = IF iob_cob_data' # None
                                     THEN Some(iob_cob_data'[1].iob) ELSE None
                      /\ cob_data' = IF iob_cob_data' # None
                                     THEN Some(iob_cob_data'[1].cob) ELSE None
                      /\ recommendations' =
                             get_recommendations(recommenders, raising, window_values,
                                 trend_analysis', prediction', iob_cob_data',
                                 settings, wall_clock)
                      /\ calls' = calls + 1
                      /\ critical_recommendations' =
                             IF recommendations' # << >>
                             THEN get_critical_recommendations(recommendations')
                             ELSE critical_recommendations
    /\ pc' = "done"
    /\ UNCHANGED <<settings, recommendation, insulin_entries, carb_entries,
                   iob_overrides, wall_clock, recommenders, raising>>

\* execute_iob_override: the user reports the pump's IOB, stamped now.
LogOverride ==
    /\ pc = "input"
    /\ Len(iob_overrides) < MaxOverrides
    /\ \A i \in DOMAIN iob_overrides : iob_overrides[i].timestamp # wall_clock
    /\ \E iob_value \in OverrideValues :
          iob_overrides' = Append(iob_overrides, [ timestamp |-> wall_clock,
                                                   iob_value |-> iob_value ])
    /\ UNCHANGED <<RuleInputs, recommendation, insulin_entries, carb_entries,
                   iob_override, current_time, iob_data, cob_data, EngineVars, pc>>

\* The sensor's next reading is due.
NextReading ==
    /\ pc = "done"
    /\ wall_clock < CycleStart + (MaxCycles - 1) * ReadingInterval
    /\ wall_clock' = wall_clock + ReadingInterval
    /\ pc' = "input"
    /\ UNCHANGED <<RuleInputs, recommendation, CalculatorVars, recommenders,
                   raising, recommendations, calls, critical_recommendations>>

NextCycle == MonitoringCycle \/ LogOverride \/ NextReading

SpecCycle == InitCycle /\ [][NextCycle]_vars

\* The overrides at most 30 minutes old at the cycle's current time.
UsableOverrides ==
    { i \in DOMAIN iob_overrides : current_time - iob_overrides[i].timestamp <= 30 }

\* The cycle has analysed a window.
CycleAnalysed == pc = "done" /\ Len(readings) >= 2

\* C25: in every monitoring cycle, if some override is at most 30 minutes
\* old at the reading's time stamp, the IOB handed to the recommenders is
\* the newest such override (rounded to two decimals) and is marked as an
\* override, whatever the insulin entries are; in every cycle at which all
\* overrides are older, hence from the first such cycle on, the IOB is the
\* value computed from the insulin entries.
C25_OverrideUsedWhileRecent ==
    CycleAnalysed =>
        IF UsableOverrides # {}
        THEN /\ iob_cob_data # None
             /\ iob_cob_data[1].iob.is_override
             /\ iob_cob_data[1].iob.total_iob =
                    Round(NewestRow(iob_overrides, UsableOverrides).iob_value, 10)
        ELSE LET computed == calculate_iob(insulin_entries, current_time, None)
             IN  IF iob_cob_data = None THEN computed.total_iob = 0
                 ELSE /\ ~iob_cob_data[1].iob.is_override
                      /\ iob_cob_data[1].iob.total_iob = computed.total_iob

\* An override has aged past 30 minutes and the IOB is computed from the
\* insulin entry again.
C25_Witness ==
    /\ CycleAnalysed
    /\ iob_overrides # << >>
    /\ UsableOverrides = {}
    /\ iob_cob_data # None
    /\ ~iob_cob_data[1].iob.is_override
    /\ iob_cob_data[1].iob.total_iob > 0

=============================================================================
